---- MODULE Spec2Model ----
(***************************************************************************)
(* Model of the cosmo-view UserManagement authorization engine:           *)
(*   domain/permissions.ts   PermissionService (the resolver)             *)
(*   domain/role-service.ts  RoleService (role management)                *)
(*   domain/services.ts      domain services (hasRole, getUserRoles, ...) *)
(*   domain/store.ts         the user-management store                    *)
(*                                                                         *)
(* JavaScript values are encoded as follows.  An optional value is a       *)
(* sequence of length 0 (undefined) or 1 (the value); strings are TLA+     *)
(* strings, so String.includes is computed on the characters; an ISO date  *)
(* string is the integer instant it denotes, and new Date() is the clock   *)
(* variable now.                                                           *)
(***************************************************************************)
EXTENDS Integers, Sequences, FiniteSets, TLC

VARIABLES user, now, call, roles

vars == <<user, now, call, roles>>

(***************************************************************************)
(* Bounds of the model.                                                    *)
(***************************************************************************)
MaxBindings == 2
MaxTime == 2
MaxCustomRoles == 1
MaxAssignerRoles == 2
MaxPermissions == 2

(***************************************************************************)
(* Optional values and JavaScript helpers.                                 *)
(***************************************************************************)
Undefined == <<>>

Some(v) == <<v>>

IsDefined(o) == o # Undefined

\* JavaScript truthiness of an optional string: undefined and "" are falsy.
Truthy(o) == o # Undefined /\ o # Some("")

\* String.prototype.includes
includes(s, t) ==
  \E i \in 1..(Len(s) - Len(t) + 1) : SubSeq(s, i, i + Len(t) - 1) = t

Range(seq) == {seq[i] : i \in 1..Len(seq)}

(***************************************************************************)
(* types.ts: SYSTEM_ROLES, ResourceType, ActionType, RoleType.             *)
(***************************************************************************)
ORGANIZATION_ADMIN == "roles/organization.admin"
ORGANIZATION_VIEWER == "roles/organization.viewer"
USER_ADMIN == "roles/user.admin"
USER_MANAGER == "roles/user.manager"
USER_VIEWER == "roles/user.viewer"
PROJECT_OWNER == "roles/project.owner"
PROJECT_EDITOR == "roles/project.editor"
PROJECT_VIEWER == "roles/project.viewer"
AUTHENTICATED_USER == "roles/authenticated.user"

\* Object.values(SYSTEM_ROLES), in declaration order
SystemRole(id, name, description) ==
  [id |-> id, name |-> name, description |-> description, type |-> "system"]

SYSTEM_ROLES ==
  << SystemRole(ORGANIZATION_ADMIN, "Organization Administrator",
                "Full access to organization and all resources"),
     SystemRole(ORGANIZATION_VIEWER, "Organization Viewer",
                "View access to organization resources"),
     SystemRole(USER_ADMIN, "User Administrator", "Full access to user management"),
     SystemRole(USER_MANAGER, "User Manager", "Manage users within department"),
     SystemRole(USER_VIEWER, "User Viewer", "View user information"),
     SystemRole(PROJECT_OWNER, "Project Owner", "Full access to project resources"),
     SystemRole(PROJECT_EDITOR, "Project Editor", "Edit access to project resources"),
     SystemRole(PROJECT_VIEWER, "Project Viewer", "View access to project resources"),
     SystemRole(AUTHENTICATED_USER, "Authenticated User",
                "Basic authenticated user permissions") >>

SystemRoleIds == {SYSTEM_ROLES[i].id : i \in 1..Len(SYSTEM_ROLES)}

(***************************************************************************)
(* permissions.ts: SYSTEM_PERMISSIONS, in declaration order.  The          *)
(* description field is never read by the engine and is left out.          *)
(***************************************************************************)
PermissionDef(id, name, resource, action) ==
  [id |-> id, name |-> name, resource |-> resource, action |-> action]

SYSTEM_PERMISSIONS ==
  << PermissionDef("organization.admin", "Organization Administrator", "organization", "admin"),
     PermissionDef("organization.read", "Organization Reader", "organization", "read"),
     PermissionDef("user.create", "Create Users", "user", "create"),
     PermissionDef("user.read", "Read Users", "user", "read"),
     PermissionDef("user.update", "Update Users", "user", "update"),
     PermissionDef("user.delete", "Delete Users", "user", "delete"),
     PermissionDef("user.invite", "Invite Users", "user", "invite"),
     PermissionDef("user.assignRole", "Assign Roles", "user", "assign_role"),
     PermissionDef("user.revokeRole", "Revoke Roles", "user", "revoke_role"),
     PermissionDef("project.create", "Create Projects", "project", "create"),
     PermissionDef("project.read", "Read Projects", "project", "read"),
     PermissionDef("project.update", "Update Projects", "project", "update"),
     PermissionDef("project.delete", "Delete Projects", "project", "delete"),
     PermissionDef("project.manage", "Manage Projects", "project", "manage"),
     PermissionDef("role.create", "Create Roles", "role", "create"),
     PermissionDef("role.read", "Read Roles", "role", "read"),
     PermissionDef("role.update", "Update Roles", "role", "update"),
     PermissionDef("role.delete", "Delete Roles", "role", "delete"),
     PermissionDef("audit.read", "Read Audit Logs", "audit", "view_audit"),
     PermissionDef("billing.read", "Read Billing", "billing", "read"),
     PermissionDef("billing.update", "Update Billing", "billing", "update") >>

\* SYSTEM_PERMISSIONS[key]
PermDef(key) ==
  SYSTEM_PERMISSIONS[CHOOSE i \in 1..Len(SYSTEM_PERMISSIONS) : SYSTEM_PERMISSIONS[i].id = key]

\* createPermission(def) / createPermission(def, conditions): conditions is
\* optional, and the spread adds the field only when it is given.
createPermission(permissionDef, conditions) ==
  [id |-> permissionDef.id, name |-> permissionDef.name,
   resource |-> permissionDef.resource, action |-> permissionDef.action,
   conditions |-> conditions]

Condition(type, value) == [type |-> type, value |-> value]

Perms(keys) == [i \in 1..Len(keys) |-> createPermission(PermDef(keys[i]), Undefined)]

(***************************************************************************)
(* PermissionService.getPermissionsForRole                                 *)
(***************************************************************************)
getPermissionsForRole(roleId) ==
  CASE roleId = ORGANIZATION_ADMIN ->
         Perms(<< "organization.admin", "user.create", "user.read", "user.update",
                  "user.delete", "user.invite", "user.assignRole", "user.revokeRole",
                  "project.create", "project.read", "project.update", "project.delete",
                  "project.manage", "role.create", "role.read", "role.update",
                  "role.delete", "audit.read", "billing.read", "billing.update" >>)
    [] roleId = USER_ADMIN ->
         Perms(<< "user.create", "user.read", "user.update", "user.delete",
                  "user.invite", "user.assignRole", "user.revokeRole" >>)
    [] roleId = USER_MANAGER ->
         Perms(<< "user.read", "user.update" >>)
         \o << createPermission(PermDef("user.invite"),
                 Some(<< Condition("department_member", Some("same_department")) >>)) >>
    [] roleId = USER_VIEWER -> Perms(<< "user.read" >>)
    [] roleId = PROJECT_OWNER ->
         Perms(<< "project.create", "project.read", "project.update",
                  "project.delete", "project.manage" >>)
    [] roleId = PROJECT_EDITOR -> Perms(<< "project.read", "project.update" >>)
    [] roleId = PROJECT_VIEWER -> Perms(<< "project.read" >>)
    [] roleId = AUTHENTICATED_USER ->
         << createPermission(PermDef("user.read"),
              Some(<< Condition("resource_owner", Some("self")) >>)) >>
    [] OTHER -> <<>>

(***************************************************************************)
(* PermissionService.getRolePermissions: the expiry test of line 248,      *)
(*   binding.expiresAt && new Date(binding.expiresAt) < new Date()         *)
(***************************************************************************)
skipsExpired(binding, t) ==
  IsDefined(binding.expiresAt) /\ binding.expiresAt[1] < t

RECURSIVE getRolePermissions(_, _)
getRolePermissions(roleBindings, t) ==
  IF roleBindings = <<>> THEN <<>>
  ELSE (IF skipsExpired(Head(roleBindings), t) THEN <<>>
        ELSE getPermissionsForRole(Head(roleBindings).roleId))
       \o getRolePermissions(Tail(roleBindings), t)

(***************************************************************************)
(* PermissionService.checkResourceAccess                                   *)
(***************************************************************************)
\* a variant that honours only a binding scoped to exactly the resource
checkResourceAccessExactOnly(u, resourceType, resourceId) ==
  \E i \in 1..Len(u.roleBindings) :
    /\ u.roleBindings[i].resourceType = resourceType
    /\ u.roleBindings[i].resourceId = resourceId

checkResourceAccess(u, resourceType, resourceId) ==
  LET hasResourceBinding ==
        \E i \in 1..Len(u.roleBindings) :
          /\ u.roleBindings[i].resourceType = resourceType
          /\ u.roleBindings[i].resourceId = resourceId
      hasGlobalBinding ==
        \E i \in 1..Len(u.roleBindings) :
          \/ ~Truthy(u.roleBindings[i].resourceType)
          \/ u.roleBindings[i].resourceType = resourceType
  IN  IF hasResourceBinding THEN TRUE ELSE hasGlobalBinding

(***************************************************************************)
(* PermissionService.checkPermissionConditions.  context is optional; a    *)
(* context is a record of optional fields.                                 *)
(***************************************************************************)
ContextField(context, f) == IF context = Undefined THEN Undefined ELSE context[1][f]

conditionPasses(u, condition, context) ==
  CASE condition.type = "resource_owner" ->
         ~(condition.value = Some("self")
           /\ ContextField(context, "resourceOwnerId") # Some(u.id))
    [] condition.type = "department_member" ->
         ~(condition.value = Some("same_department")
           /\ ContextField(context, "department") # u.department)
    [] condition.type = "organization_member" ->
         ~(/\ Truthy(ContextField(context, "organizationId"))
           /\ ~\E i \in 1..Len(u.roleBindings) :
                 /\ u.roleBindings[i].resourceType = Some("organization")
                 /\ u.roleBindings[i].resourceId = ContextField(context, "organizationId"))
    [] condition.type = "time_based" -> TRUE
    [] condition.type = "ip_based" -> TRUE
    [] OTHER -> FALSE

checkPermissionConditions(u, conditions, context) ==
  \A i \in 1..Len(conditions) : conditionPasses(u, conditions[i], context)

(***************************************************************************)
(* PermissionService.checkPermission                                       *)
(***************************************************************************)
DirectGranted == [granted |-> TRUE, reason |-> "Direct permission granted"]
RoleGranted == [granted |-> TRUE, reason |-> "Role-based permission granted"]
NotFound == [granted |-> FALSE, reason |-> "Permission not found"]

\* lines 208-233: whether the loop body returns for this role permission
candidateGrants(u, request, permission) ==
  /\ permission.name = request.permission
  /\ (Truthy(request.resourceType) /\ Truthy(request.resourceId))
       => checkResourceAccess(u, request.resourceType, request.resourceId)
  /\ IsDefined(permission.conditions)
       => checkPermissionConditions(u, permission.conditions[1], request.context)

\* checkPermission with the role loop (lines 207-234) placed before the direct
\* permission check (lines 194-205)
checkPermissionRolesFirst(u, request, t) ==
  LET hasDirect ==
        /\ IsDefined(u.directPermissions)
        /\ \E i \in 1..Len(u.directPermissions[1]) :
             u.directPermissions[1][i].name = request.permission
      rolePermissions == getRolePermissions(u.roleBindings, t)
  IN  IF \E i \in 1..Len(rolePermissions) : candidateGrants(u, request, rolePermissions[i])
      THEN RoleGranted
      ELSE IF hasDirect THEN DirectGranted ELSE NotFound

checkPermission(u, request, t) ==
  LET hasDirectPermission ==
        /\ IsDefined(u.directPermissions)
        /\ \E i \in 1..Len(u.directPermissions[1]) :
             u.directPermissions[1][i].name = request.permission
      rolePermissions == getRolePermissions(u.roleBindings, t)
  IN  IF hasDirectPermission THEN DirectGranted
      ELSE IF \E i \in 1..Len(rolePermissions) : candidateGrants(u, request, rolePermissions[i])
           THEN RoleGranted
           ELSE NotFound

(***************************************************************************)
(* PermissionService.getEffectivePermissions                               *)
(***************************************************************************)
getEffectivePermissions(u, t) ==
  LET permissions ==
        (IF IsDefined(u.directPermissions) THEN u.directPermissions[1] ELSE <<>>)
        \o getRolePermissions(u.roleBindings, t)
      firstOfId(i) ==
        i = CHOOSE j \in 1..Len(permissions) :
              /\ permissions[j].id = permissions[i].id
              /\ \A k \in 1..(j - 1) : permissions[k].id # permissions[i].id
      RECURSIVE unique(_)
      unique(i) ==
        IF i > Len(permissions) THEN <<>>
        ELSE (IF firstOfId(i) THEN <<permissions[i]>> ELSE <<>>) \o unique(i + 1)
  IN  unique(1)

(***************************************************************************)
(* services.ts: getUserRoles, hasRole; store.ts: the role filter of        *)
(* getFilteredUsers.  Each has its own expiry test,                        *)
(*   !binding.expiresAt || new Date(binding.expiresAt) > new Date()        *)
(***************************************************************************)
notExpired(binding, t) ==
  ~IsDefined(binding.expiresAt) \/ binding.expiresAt[1] > t

RECURSIVE getUserRolesOf(_, _)
getUserRolesOf(roleBindings, t) ==
  IF roleBindings = <<>> THEN <<>>
  ELSE (IF notExpired(Head(roleBindings), t) THEN <<Head(roleBindings)>> ELSE <<>>)
       \o getUserRolesOf(Tail(roleBindings), t)

getUserRoles(u, t) == getUserRolesOf(u.roleBindings, t)

hasRole(u, roleId, t) ==
  \E i \in 1..Len(u.roleBindings) :
    u.roleBindings[i].roleId = roleId /\ notExpired(u.roleBindings[i], t)

\* store.ts lines 103-110: the user passes the roleId filter
storeRoleFilter(u, filters, t) ==
  Truthy(filters.roleId) =>
    \E i \in 1..Len(u.roleBindings) :
      /\ u.roleBindings[i].roleId = filters.roleId[1]
      /\ (~IsDefined(u.roleBindings[i].expiresAt) \/ u.roleBindings[i].expiresAt[1] > t)

(***************************************************************************)
(* The inputs of the resolver: users, requests and the clock.              *)
(***************************************************************************)
CUSTOM_ROLE == "roles/custom-role-1700000000000"

BindingRoleIds == {USER_VIEWER, USER_MANAGER, PROJECT_VIEWER, AUTHENTICATED_USER}

BindingScopes ==
  { [resourceType |-> Undefined, resourceId |-> Undefined],
    [resourceType |-> Some("project"), resourceId |-> Some("p1")] }

\* an expiring binding expires one tick before the end of the modelled time
BindingExpiries == {Undefined, Some(MaxTime - 1)}

Bindings ==
  { [roleId |-> r, resourceType |-> s.resourceType, resourceId |-> s.resourceId,
     expiresAt |-> e] : r \in BindingRoleIds, s \in BindingScopes, e \in BindingExpiries }

BindingLists == UNION { [1..n -> Bindings] : n \in 0..MaxBindings }

DirectPermissionLists ==
  { Undefined,
    Some(<< createPermission(PermDef("user.delete"), Undefined) >>),
    Some(<< createPermission(PermDef("user.read"),
              Some(<< Condition("organization_member", Undefined) >>)) >>) }

Users ==
  { [id |-> "u1", department |-> Some("engineering"), roleBindings |-> bl,
     directPermissions |-> d] : bl \in BindingLists, d \in DirectPermissionLists }

RequestPermissions ==
  { "Read Users", "Invite Users", "Delete Users", "Read Projects",
    "user.read", "user.delete", "user.update" }

RequestScopes ==
  { [resourceType |-> Undefined, resourceId |-> Undefined],
    [resourceType |-> Some("project"), resourceId |-> Undefined],
    [resourceType |-> Some("project"), resourceId |-> Some("p1")],
    [resourceType |-> Some("project"), resourceId |-> Some("p2")],
    [resourceType |-> Some("user"), resourceId |-> Some("u2")] }

RequestContexts ==
  { Undefined,
    Some([resourceOwnerId |-> Some("u1"), department |-> Some("engineering"),
          organizationId |-> Undefined]),
    Some([resourceOwnerId |-> Some("u2"), department |-> Some("sales"),
          organizationId |-> Some("o1")]) }

Requests ==
  { [userId |-> "u1", permission |-> p, resourceType |-> s.resourceType,
     resourceId |-> s.resourceId, context |-> c] :
       p \in RequestPermissions, s \in RequestScopes, c \in RequestContexts }

NoCall == [op |-> "none", request |-> Undefined, response |-> Undefined]

(***************************************************************************)
(* The resolver as a state machine: a caller supplies a user snapshot, the *)
(* clock runs, and one query is answered.                                  *)
(***************************************************************************)
Init ==
  /\ user \in Users
  /\ now = 0
  /\ call = NoCall
  /\ roles = <<>>

Tick ==
  /\ call = NoCall
  /\ now < MaxTime
  /\ now' = now + 1
  /\ UNCHANGED <<user, call, roles>>

CheckPermission ==
  /\ call = NoCall
  /\ \E request \in Requests :
       call' = [op |-> "checkPermission", request |-> Some(request),
                response |-> Some(checkPermission(user, request, now))]
  /\ UNCHANGED <<user, now, roles>>

GetEffectivePermissions ==
  /\ call = NoCall
  /\ call' = [op |-> "getEffectivePermissions", request |-> Undefined,
              response |-> Some(getEffectivePermissions(user, now))]
  /\ UNCHANGED <<user, now, roles>>

Next == Tick \/ CheckPermission \/ GetEffectivePermissions

Spec == Init /\ [][Next]_vars

(***************************************************************************)
(* Vocabulary of the claims about the resolver.                            *)
(***************************************************************************)
IsCheck == call.op = "checkPermission"
Req == call.request[1]
Resp == call.response[1]

\* The data model's definition: a binding is effective at t iff its expiresAt
\* is unset or strictly later than t.
Effective(binding, t) ==
  \A e \in Range(binding.expiresAt) : e > t

\* expiresAt lies in the past at t
InPast(binding, t) ==
  \E e \in Range(binding.expiresAt) : e < t

IsGlobal(binding) == binding.resourceType = Undefined /\ binding.resourceId = Undefined

\* the role of the binding carries a permission the request names
Supplies(binding, request) ==
  \E p \in Range(getPermissionsForRole(binding.roleId)) : p.name = request.permission

SuppliesUnconditioned(binding, request) ==
  \E p \in Range(getPermissionsForRole(binding.roleId)) :
    p.name = request.permission /\ p.conditions = Undefined

DirectMatch(u, request) ==
  \E d \in Range(u.directPermissions) :
    \E p \in Range(d) : p.name = request.permission

\* the user with the bindings whose expiresAt is in the past removed
RECURSIVE DropInPast(_, _)
DropInPast(roleBindings, t) ==
  IF roleBindings = <<>> THEN <<>>
  ELSE (IF InPast(Head(roleBindings), t) THEN <<>> ELSE <<Head(roleBindings)>>)
       \o DropInPast(Tail(roleBindings), t)

WithoutExpired(u, t) == [u EXCEPT !.roleBindings = DropInPast(u.roleBindings, t)]

(***************************************************************************)
(* C1  Default deny: a request that no direct permission matches and that  *)
(* no effective role binding supplies is answered granted = false.         *)
(***************************************************************************)
C1_DefaultDeny ==
  (/\ IsCheck
   /\ ~DirectMatch(user, Req)
   /\ ~\E b \in Range(user.roleBindings) : Effective(b, now) /\ Supplies(b, Req))
  => Resp = NotFound

(***************************************************************************)
(* C2  Scenario A: a user whose only binding is an unscoped, non-expiring  *)
(* binding to roles/user.viewer is granted "user.read" and denied          *)
(* "user.delete".                                                          *)
(***************************************************************************)
ScenarioAUser ==
  /\ user.roleBindings = << [roleId |-> USER_VIEWER, resourceType |-> Undefined,
                             resourceId |-> Undefined, expiresAt |-> Undefined] >>
  /\ user.directPermissions = Undefined

C2_ScenarioA ==
  (IsCheck /\ ScenarioAUser /\ Req.resourceType = Undefined /\ Req.context = Undefined)
  => /\ Req.permission = "user.read" => Resp.granted
     /\ Req.permission = "user.delete" => ~Resp.granted

(***************************************************************************)
(* C3  An effective binding without resource scope whose role carries the  *)
(* requested permission without conditions yields granted = true for every *)
(* resourceType/resourceId of the request, whatever else the user holds.   *)
(***************************************************************************)
C3_GlobalBindingGrants ==
  (/\ IsCheck
   /\ \E b \in Range(user.roleBindings) :
        Effective(b, now) /\ IsGlobal(b) /\ SuppliesUnconditioned(b, Req))
  => Resp.granted

\* reached: a scoped request granted on the strength of a global binding, by a
\* user who also holds a conditioned permission of the same name that fails
C3_Witness ==
  /\ IsCheck
  /\ Req.resourceType = Some("project") /\ Req.resourceId = Some("p2")
  /\ Req.context = Undefined
  /\ ~DirectMatch(user, Req)
  /\ Len(user.roleBindings) = 2
  /\ user.roleBindings[1].roleId = AUTHENTICATED_USER
  /\ user.roleBindings[2].roleId = USER_VIEWER
  /\ IsGlobal(user.roleBindings[2]) /\ Effective(user.roleBindings[2], now)
  /\ Req.permission = "Read Users"
  /\ Resp = RoleGranted

(***************************************************************************)
(* C4  A binding whose expiresAt is in the past never contributes:         *)
(* checkPermission and getEffectivePermissions answer as they do for the   *)
(* same user with the expired bindings removed.                            *)
(***************************************************************************)
C4_ExpiredNeverContributes ==
  /\ IsCheck => Resp = checkPermission(WithoutExpired(user, now), Req, now)
  /\ call.op = "getEffectivePermissions"
       => call.response[1] = getEffectivePermissions(WithoutExpired(user, now), now)

(***************************************************************************)
(* C5  At every evaluation time a binding is effective iff its expiresAt   *)
(* is unset or strictly later, and the resolver, hasRole, getUserRoles and *)
(* the store's role filter classify every binding the same way.            *)
(***************************************************************************)
ResolverCounts(b, t) == ~skipsExpired(b, t)
HasRoleCounts(b, t) == hasRole([roleBindings |-> <<b>>], b.roleId, t)
GetUserRolesCounts(b, t) == getUserRoles([roleBindings |-> <<b>>], t) = <<b>>
StoreCounts(b, t) ==
  storeRoleFilter([roleBindings |-> <<b>>], [roleId |-> Some(b.roleId)], t)

C5_EffectiveAgreement ==
  \A b \in Range(user.roleBindings) :
    /\ ResolverCounts(b, now) = Effective(b, now)
    /\ HasRoleCounts(b, now) = Effective(b, now)
    /\ GetUserRolesCounts(b, now) = Effective(b, now)
    /\ StoreCounts(b, now) = Effective(b, now)

(***************************************************************************)
(* C6  Scenario D: when every binding that supplies the permission is      *)
(* scoped to (project, p1) and the user holds no global binding, a request *)
(* for that permission on (project, p2) is denied.                         *)
(***************************************************************************)
C6_ScenarioD ==
  (/\ IsCheck
   /\ Req.resourceType = Some("project") /\ Req.resourceId = Some("p2")
   /\ ~DirectMatch(user, Req)
   /\ \E b \in Range(user.roleBindings) : Supplies(b, Req)
   /\ \A b \in Range(user.roleBindings) :
        /\ ~IsGlobal(b)
        /\ Supplies(b, Req) =>
             b.resourceType = Some("project") /\ b.resourceId = Some("p1"))
  => ~Resp.granted

(***************************************************************************)
(* C7  getEffectivePermissions returns no two entries with the same id,    *)
(* and its ids are exactly those of the direct permissions and of the      *)
(* permissions of the effective bindings.                                  *)
(***************************************************************************)
Ids(permissions) == {permissions[i].id : i \in 1..Len(permissions)}

C7_EffectivePermissions ==
  call.op = "getEffectivePermissions" =>
    LET result == call.response[1]
    IN  /\ \A i, j \in 1..Len(result) : result[i].id = result[j].id => i = j
        /\ Ids(result) =
             UNION {Ids(d) : d \in Range(user.directPermissions)}
             \cup UNION {Ids(getPermissionsForRole(b.roleId)) :
                           b \in {x \in Range(user.roleBindings) : Effective(x, now)}}

(***************************************************************************)
(* role-service.ts: RoleService.                                           *)
(***************************************************************************)
\* createPermissionFromDef(def) / createPermissionFromDef(def, conditions)
createPermissionFromDef(permissionDef, conditions) ==
  [id |-> permissionDef.id, name |-> permissionDef.name,
   resource |-> permissionDef.resource, action |-> permissionDef.action,
   conditions |-> conditions]

PermsFromDef(keys) ==
  [i \in 1..Len(keys) |-> createPermissionFromDef(PermDef(keys[i]), Undefined)]

getSystemRolePermissions(roleId) ==
  CASE roleId = ORGANIZATION_ADMIN ->
         [i \in 1..Len(SYSTEM_PERMISSIONS) |->
            createPermissionFromDef(SYSTEM_PERMISSIONS[i], Undefined)]
    [] roleId = USER_ADMIN ->
         PermsFromDef(<< "user.create", "user.read", "user.update", "user.delete",
                         "user.invite", "user.assignRole", "user.revokeRole",
                         "role.read" >>)
    [] roleId = USER_MANAGER ->
         PermsFromDef(<< "user.read", "user.update" >>)
         \o << createPermissionFromDef(PermDef("user.invite"),
                 Some(<< Condition("department_member", Some("same_department")) >>)) >>
    [] roleId = USER_VIEWER -> PermsFromDef(<< "user.read" >>)
    [] roleId = PROJECT_OWNER ->
         PermsFromDef(<< "project.create", "project.read", "project.update",
                         "project.delete", "project.manage" >>)
    [] roleId = PROJECT_EDITOR -> PermsFromDef(<< "project.read", "project.update" >>)
    [] roleId = PROJECT_VIEWER -> PermsFromDef(<< "project.read" >>)
    [] roleId = AUTHENTICATED_USER ->
         << createPermissionFromDef(PermDef("user.read"),
              Some(<< Condition("resource_owner", Some("self")) >>)) >>
    [] OTHER -> <<>>

\* the instant '2024-01-01T00:00:00.000Z' that getSystemRoles stamps on every
\* system role; the modelled clock starts there
SystemRoleTimestamp == 0

getSystemRoles ==
  [i \in 1..Len(SYSTEM_ROLES) |->
     [id |-> SYSTEM_ROLES[i].id, name |-> SYSTEM_ROLES[i].name,
      description |-> SYSTEM_ROLES[i].description, type |-> SYSTEM_ROLES[i].type,
      permissions |-> getSystemRolePermissions(SYSTEM_ROLES[i].id),
      organizationId |-> Undefined, isSystemRole |-> TRUE,
      createdAt |-> SystemRoleTimestamp, updatedAt |-> SystemRoleTimestamp,
      createdBy |-> Undefined]]

\* String.prototype.toLowerCase and the replace of /[^a-z0-9]/g by '-', on
\* the characters of the ASCII range
UpperCase == "ABCDEFGHIJKLMNOPQRSTUVWXYZ"
LowerCase == "abcdefghijklmnopqrstuvwxyz"
DigitChars == "0123456789"

CharAt(s, i) == SubSeq(s, i, i)

toLowerCaseChar(c) ==
  IF \E i \in 1..Len(UpperCase) : CharAt(UpperCase, i) = c
  THEN CharAt(LowerCase, CHOOSE i \in 1..Len(UpperCase) : CharAt(UpperCase, i) = c)
  ELSE c

sanitizeChar(c) ==
  LET l == toLowerCaseChar(c)
  IN  IF \/ \E i \in 1..Len(LowerCase) : CharAt(LowerCase, i) = l
         \/ \E i \in 1..Len(DigitChars) : CharAt(DigitChars, i) = l
      THEN l ELSE "-"

RECURSIVE sanitize(_)
sanitize(name) ==
  IF name = "" THEN ""
  ELSE sanitizeChar(CharAt(name, 1)) \o sanitize(SubSeq(name, 2, Len(name)))

\* generateRoleId; t is Date.now()
generateRoleId(name, t) == "roles/" \o sanitize(name) \o "-" \o ToString(t)

\* createCustomRole; t is the clock read by Date.now() and new Date()
createCustomRole(name, description, permissions, organizationId, createdBy, t) ==
  [id |-> generateRoleId(name, t), name |-> name, description |-> description,
   type |-> "custom", permissions |-> permissions,
   organizationId |-> IF Truthy(organizationId) THEN organizationId ELSE Undefined,
   isSystemRole |-> FALSE, createdAt |-> t, updatedAt |-> t,
   createdBy |-> IF Truthy(createdBy) THEN createdBy ELSE Undefined]

Returned(value) == [threw |-> FALSE, error |-> Undefined, value |-> Some(value)]
Threw(message) == [threw |-> TRUE, error |-> Some(message), value |-> Undefined]

\* { ...role, ...updates, updatedAt }: a key of updates replaces the role's
ApplyUpdates(role, updates) ==
  [role EXCEPT
     !.name = IF IsDefined(updates.name) THEN updates.name[1] ELSE @,
     !.description = IF IsDefined(updates.description) THEN updates.description[1] ELSE @,
     !.permissions = IF IsDefined(updates.permissions) THEN updates.permissions[1] ELSE @]

\* a variant without the system-role guard
updateCustomRoleUnguarded(role, updates, t) ==
  Returned([ApplyUpdates(role, updates) EXCEPT !.updatedAt = t])

updateCustomRole(role, updates, t) ==
  IF role.isSystemRole THEN Threw("Cannot update system roles")
  ELSE Returned([ApplyUpdates(role, updates) EXCEPT !.updatedAt = t])

deleteCustomRole(role) ==
  IF role.isSystemRole THEN Threw("Cannot delete system roles")
  ELSE Returned(Undefined)

\* a variant that tests the user-manager rule before the user-admin rule
canAssignRoleManagerFirst(assignerRoleIds, targetRoleId) ==
  IF ORGANIZATION_ADMIN \in Range(assignerRoleIds) THEN TRUE
  ELSE IF USER_MANAGER \in Range(assignerRoleIds)
       THEN targetRoleId = USER_VIEWER \/ targetRoleId = AUTHENTICATED_USER
  ELSE IF USER_ADMIN \in Range(assignerRoleIds)
       THEN ~includes(targetRoleId, "organization")
  ELSE FALSE

canAssignRole(assignerRoleIds, targetRoleId) ==
  IF ORGANIZATION_ADMIN \in Range(assignerRoleIds) THEN TRUE
  ELSE IF USER_ADMIN \in Range(assignerRoleIds)
       THEN ~includes(targetRoleId, "organization")
  ELSE IF USER_MANAGER \in Range(assignerRoleIds)
       THEN targetRoleId = USER_VIEWER \/ targetRoleId = AUTHENTICATED_USER
  ELSE FALSE

RECURSIVE filterAdmin(_, _)
\* permissions.filter(p => p.action === 'admin') when isAdmin, and the filter
\* on p.action !== 'admin' otherwise
filterAdmin(permissions, isAdmin) ==
  IF permissions = <<>> THEN <<>>
  ELSE (IF (Head(permissions).action = "admin") = isAdmin
        THEN <<Head(permissions)>> ELSE <<>>)
       \o filterAdmin(Tail(permissions), isAdmin)

RECURSIVE filterOrganization(_)
filterOrganization(permissions) ==
  IF permissions = <<>> THEN <<>>
  ELSE (IF \/ Head(permissions).resource = "organization"
           \/ includes(Head(permissions).name, "organization")
        THEN <<Head(permissions)>> ELSE <<>>)
       \o filterOrganization(Tail(permissions))

EmptyRoleError == "Role must have at least one permission"
MixedAdminError == "Cannot mix admin permissions with specific permissions"
OrganizationLevelError == "Custom roles cannot have organization-level permissions"

\* a variant that applies the organization-level rule to every role type
validateRolePermissionsAnyType(permissions, roleType) ==
  LET errors ==
        (IF Len(permissions) = 0 THEN <<EmptyRoleError>> ELSE <<>>)
        \o (IF Len(filterAdmin(permissions, TRUE)) > 0
               /\ Len(filterAdmin(permissions, FALSE)) > 0
            THEN <<MixedAdminError>> ELSE <<>>)
        \o (IF Len(filterOrganization(permissions)) > 0
            THEN <<OrganizationLevelError>> ELSE <<>>)
  IN  [isValid |-> Len(errors) = 0, errors |-> errors]

validateRolePermissions(permissions, roleType) ==
  LET errors ==
        (IF Len(permissions) = 0 THEN <<EmptyRoleError>> ELSE <<>>)
        \o (IF Len(filterAdmin(permissions, TRUE)) > 0
               /\ Len(filterAdmin(permissions, FALSE)) > 0
            THEN <<MixedAdminError>> ELSE <<>>)
        \o (IF roleType = "custom" /\ Len(filterOrganization(permissions)) > 0
            THEN <<OrganizationLevelError>> ELSE <<>>)
  IN  [isValid |-> Len(errors) = 0, errors |-> errors]

(***************************************************************************)
(* The role lifecycle as a state machine: the caller holds the system      *)
(* roles and the custom roles it created, and keeps what a successful      *)
(* update returns in place of the role it passed.                          *)
(***************************************************************************)
NoUser ==
  [id |-> "u1", department |-> Undefined, roleBindings |-> <<>>,
   directPermissions |-> Undefined]

RoleNames == {"Auditor", "Org Helper"}

RolePermissionLists ==
  { <<>>, PermsFromDef(<< "user.read" >>) }

NoUpdates == [name |-> Undefined, description |-> Undefined, permissions |-> Undefined]

RoleUpdates ==
  { [NoUpdates EXCEPT !.name = Some("Renamed")],
    [NoUpdates EXCEPT !.description = Some("changed"),
                      !.permissions = Some(PermsFromDef(<< "project.read" >>))] }

InitRoles ==
  /\ user = NoUser
  /\ now = 0
  /\ call = NoCall
  /\ roles = getSystemRoles

\* a thrown error is fatal to the caller: nothing follows it
Thrown == call.response # Undefined /\ call.response[1].threw

Advance ==
  /\ ~Thrown
  /\ now < MaxTime
  /\ now' = now + 1
  /\ UNCHANGED <<user, call, roles>>

CreateCustomRole ==
  /\ ~Thrown
  /\ Len(roles) < Len(SYSTEM_ROLES) + MaxCustomRoles
  /\ \E name \in RoleNames, permissions \in RolePermissionLists :
       LET role == createCustomRole(name, "d", permissions, Undefined, Undefined, now)
       IN  /\ roles' = Append(roles, role)
           /\ call' = [op |-> "createCustomRole",
                       request |-> Some([name |-> name, permissions |-> permissions]),
                       response |-> Some(Returned(role))]
  /\ UNCHANGED <<user, now>>

UpdateCustomRole ==
  /\ ~Thrown
  /\ \E i \in 1..Len(roles), updates \in RoleUpdates :
       LET result == updateCustomRole(roles[i], updates, now)
       IN  /\ roles' = IF result.threw THEN roles
                       ELSE [roles EXCEPT ![i] = result.value[1]]
           /\ call' = [op |-> "updateCustomRole",
                       request |-> Some([role |-> roles[i], updates |-> updates]),
                       response |-> Some(result)]
  /\ UNCHANGED <<user, now>>

DeleteCustomRole ==
  /\ ~Thrown
  /\ \E i \in 1..Len(roles) :
       call' = [op |-> "deleteCustomRole", request |-> Some([role |-> roles[i]]),
                response |-> Some(deleteCustomRole(roles[i]))]
  /\ UNCHANGED <<user, now, roles>>

NextRoles == Advance \/ CreateCustomRole \/ UpdateCustomRole \/ DeleteCustomRole

SpecRoles == InitRoles /\ [][NextRoles]_vars

(***************************************************************************)
(* C8  updateCustomRole and deleteCustomRole on a role with isSystemRole   *)
(* set fail with a thrown error and change nothing: neither the role       *)
(* passed in nor any role held, the system roles of the catalog included.  *)
(***************************************************************************)
IsRoleMutation == call.op \in {"updateCustomRole", "deleteCustomRole"}

C8_SystemRolesImmutable ==
  [][ (call' # call /\ IsRoleMutation' /\ call'.request[1].role.isSystemRole)
      => /\ call'.response[1].threw
         /\ call'.response[1].error =
              Some(IF call'.op = "updateCustomRole" THEN "Cannot update system roles"
                   ELSE "Cannot delete system roles")
         /\ roles' = roles
         /\ SubSeq(roles', 1, Len(SYSTEM_ROLES)) = getSystemRoles ]_vars

\* reached: an update that supplies new permissions was attempted on a system
\* role and threw
C8_Witness ==
  /\ call.op = "updateCustomRole"
  /\ call.request[1].role.id = USER_VIEWER
  /\ call.request[1].role.isSystemRole
  /\ IsDefined(call.request[1].updates.permissions)
  /\ call.response[1].threw
  /\ roles[5].permissions = getSystemRolePermissions(USER_VIEWER)

(***************************************************************************)
(* The pure rules of the role service: one query is answered.              *)
(***************************************************************************)
AssignerRoleIds == {ORGANIZATION_ADMIN, USER_ADMIN, USER_MANAGER, USER_VIEWER}

AssignerLists == UNION { [1..n -> AssignerRoleIds] : n \in 0..MaxAssignerRoles }

TargetRoleIds ==
  SystemRoleIds \cup {generateRoleId(n, 1) : n \in RoleNames \cup {"Reorganization"}}

\* permissions a caller may compose a role from: catalog entries and
\* permissions of its own
PermissionPool ==
  { createPermissionFromDef(PermDef("organization.admin"), Undefined),
    createPermissionFromDef(PermDef("organization.read"), Undefined),
    createPermissionFromDef(PermDef("user.read"), Undefined),
    createPermissionFromDef(
      PermissionDef("chart.read", "View organization chart", "document", "read"), Undefined),
    createPermissionFromDef(
      PermissionDef("project.admin", "Project Administrator", "project", "admin"), Undefined) }

PermissionLists == UNION { [1..n -> PermissionPool] : n \in 0..MaxPermissions }

RoleTypes == {"system", "predefined", "custom"}

InitRules ==
  /\ user = NoUser
  /\ now = 0
  /\ call = NoCall
  /\ roles = <<>>

CanAssignRole ==
  /\ call = NoCall
  /\ \E assignerRoleIds \in AssignerLists, targetRoleId \in TargetRoleIds :
       call' = [op |-> "canAssignRole",
                request |-> Some([assignerRoleIds |-> assignerRoleIds,
                                  targetRoleId |-> targetRoleId]),
                response |-> Some(canAssignRole(assignerRoleIds, targetRoleId))]
  /\ UNCHANGED <<user, now, roles>>

ValidateRolePermissions ==
  /\ call = NoCall
  /\ \E permissions \in PermissionLists, roleType \in RoleTypes :
       call' = [op |-> "validateRolePermissions",
                request |-> Some([permissions |-> permissions, roleType |-> roleType]),
                response |-> Some(validateRolePermissions(permissions, roleType))]
  /\ UNCHANGED <<user, now, roles>>

NextRules == CanAssignRole \/ ValidateRolePermissions

SpecRules == InitRules /\ [][NextRules]_vars

(***************************************************************************)
(* C9  canAssignRole follows the delegation table: organization.admin may  *)
(* assign anything; otherwise user.admin anything whose id does not        *)
(* contain "organization"; otherwise user.manager only user.viewer and     *)
(* authenticated.user; anyone else nothing.                                *)
(***************************************************************************)
DelegationTable(assigners, target) ==
  \/ "roles/organization.admin" \in assigners
  \/ /\ "roles/organization.admin" \notin assigners
     /\ "roles/user.admin" \in assigners
     /\ ~includes(target, "organization")
  \/ /\ "roles/organization.admin" \notin assigners
     /\ "roles/user.admin" \notin assigners
     /\ "roles/user.manager" \in assigners
     /\ target \in {"roles/user.viewer", "roles/authenticated.user"}

C10_ValidationRules ==
  call.op = "validateRolePermissions" =>
    LET permissions == Range(call.request[1].permissions)
        roleType == call.request[1].roleType
        result == call.response[1]
        errors == Range(result.errors)
    IN  /\ result.isValid = (result.errors = <<>>)
        /\ errors \subseteq {EmptyRoleError, MixedAdminError, OrganizationLevelError}
        /\ Cardinality(errors) = Len(result.errors)
        /\ (EmptyRoleError \in errors) = (permissions = {})
        /\ (MixedAdminError \in errors) =
             ((\E p \in permissions : p.action = "admin")
              /\ (\E p \in permissions : p.action # "admin"))
        /\ (OrganizationLevelError \in errors) =
             (/\ roleType = "custom"
              /\ \E p \in permissions :
                   p.resource = "organization" \/ includes(p.name, "organization"))
        /\ (permissions = {} /\ roleType = "custom") =>
             result = [isValid |-> FALSE, errors |-> <<EmptyRoleError>>]

\* reached: a system-type role that mixes organization.admin with user.read
\* is rejected for the mixing alone
C10_Witness ==
  /\ call.op = "validateRolePermissions"
  /\ call.request[1].roleType = "system"
  /\ Len(call.request[1].permissions) = 2
  /\ call.request[1].permissions[1].id = "organization.admin"
  /\ call.request[1].permissions[2].id = "user.read"
  /\ call.response[1] = [isValid |-> FALSE, errors |-> <<MixedAdminError>>]

(***************************************************************************)
(* checkPermission step by step.  The call is asynchronous: it awaits      *)
(* getRolePermissions, whose loop awaits getPermissionsForRole once per    *)
(* binding, and the wall clock runs while it is in progress.  call holds   *)
(* the frame of the invocation: the index of the next binding to inspect,  *)
(* the permissions pushed so far, every instant new Date() returned and    *)
(* every roleId passed to getPermissionsForRole.                           *)
(***************************************************************************)
\* lines 195-198
hasDirectPermission(u, request) ==
  /\ IsDefined(u.directPermissions)
  /\ \E i \in 1..Len(u.directPermissions[1]) :
       u.directPermissions[1][i].name = request.permission

\* lines 207-237: the loop over the role permissions and the final return
resolveRolePermissions(u, request, rolePermissions) ==
  IF \E i \in 1..Len(rolePermissions) : candidateGrants(u, request, rolePermissions[i])
  THEN RoleGranted
  ELSE NotFound

StepRequests ==
  { r \in Requests :
      /\ r.permission \in {"Read Users", "Delete Users"}
      /\ r.resourceType = Undefined /\ r.resourceId = Undefined
      /\ r.context = Undefined }

Frame(request, response, index, permissions, clockReads, lookups) ==
  [op |-> "checkPermission", request |-> Some(request), response |-> response,
   index |-> index, permissions |-> permissions, clockReads |-> clockReads,
   lookups |-> lookups]

InProgress == call.op = "checkPermission" /\ call.response = Undefined

\* the wall clock advances, also while a call is in progress
Elapse ==
  /\ call = NoCall \/ InProgress
  /\ now < MaxTime
  /\ now' = now + 1
  /\ UNCHANGED <<user, call, roles>>

\* entry of checkPermission: the direct permissions, then the call of
\* getRolePermissions
BeginCheck ==
  /\ call = NoCall
  /\ \E request \in StepRequests :
       call' = IF hasDirectPermission(user, request)
               THEN Frame(request, Some(DirectGranted), 1, <<>>, <<>>, <<>>)
               ELSE Frame(request, Undefined, 1, <<>>, <<>>, <<>>)
  /\ UNCHANGED <<user, now, roles>>

\* one iteration of the loop of getRolePermissions.  new Date() is evaluated
\* only when binding.expiresAt is truthy.
InspectBinding ==
  /\ InProgress
  /\ call.index <= Len(user.roleBindings)
  /\ LET binding == user.roleBindings[call.index]
         reads == IF IsDefined(binding.expiresAt)
                  THEN Append(call.clockReads, now) ELSE call.clockReads
     IN  call' = IF skipsExpired(binding, now)
                 THEN [call EXCEPT !.index = @ + 1, !.clockReads = reads]
                 ELSE [call EXCEPT !.index = @ + 1, !.clockReads = reads,
                                   !.lookups = Append(@, binding.roleId),
                                   !.permissions = @ \o getPermissionsForRole(binding.roleId)]
  /\ UNCHANGED <<user, now, roles>>

\* getRolePermissions has returned: the loop over the permissions
CompleteCheck ==
  /\ InProgress
  /\ call.index > Len(user.roleBindings)
  /\ call' = [call EXCEPT !.response =
                Some(resolveRolePermissions(user, call.request[1], call.permissions))]
  /\ UNCHANGED <<user, now, roles>>

NextSteps == Elapse \/ BeginCheck \/ InspectBinding \/ CompleteCheck

SpecSteps == Init /\ [][NextSteps]_vars

CheckDone == call.op = "checkPermission" /\ call.response # Undefined

(***************************************************************************)
(* C11  One checkPermission invocation reads the clock once: every expiry  *)
(* comparison of the invocation is made against the same instant.          *)
(***************************************************************************)
C11_SingleClockRead ==
  call.op = "checkPermission" =>
    \A i, j \in 1..Len(call.clockReads) : call.clockReads[i] = call.clockReads[j]

(***************************************************************************)
(* C12  Within one checkPermission invocation the per-role permission      *)
(* lookup is invoked at most once for each distinct roleId.                *)
(***************************************************************************)
C12_LookupOncePerRole ==
  call.op = "checkPermission" =>
    \A i, j \in 1..Len(call.lookups) : call.lookups[i] = call.lookups[j] => i = j

(***************************************************************************)
(* services.ts: createRoleBinding and updateUserRoleBindings.  Arrays and  *)
(* objects are JavaScript references, so the function is modelled on a     *)
(* heap: objects is the sequence of binding objects allocated so far (an   *)
(* object reference is its index), arrays the sequence of arrays allocated *)
(* so far, each a sequence of object references (an array reference is its *)
(* index).  A spread copy or a filter allocates a new array that shares    *)
(* the objects; push and an indexed assignment change an array in place.   *)
(***************************************************************************)
MaxUpdates == 2

\* getRoleName
getRoleName(roleId) ==
  IF \E i \in 1..Len(SYSTEM_ROLES) : SYSTEM_ROLES[i].id = roleId
  THEN SYSTEM_ROLES[CHOOSE i \in 1..Len(SYSTEM_ROLES) : SYSTEM_ROLES[i].id = roleId].name
  ELSE roleId

\* generateId; random is the outcome of Math.random().toString(36).substr(2, 9)
generateId(t, random) == ToString(t) \o "-" \o random

\* createRoleBinding; t is the clock, random the outcome of Math.random
createRoleBinding(request, assignedBy, t, random) ==
  [id |-> generateId(t, random), roleId |-> request.roleId,
   roleName |-> getRoleName(request.roleId),
   resourceType |-> IF Truthy(request.resourceType) THEN request.resourceType ELSE Undefined,
   resourceId |-> IF Truthy(request.resourceId) THEN request.resourceId ELSE Undefined,
   conditions |-> request.conditions,
   expiresAt |-> request.expiresAt,
   createdAt |-> t, assignedBy |-> assignedBy]

Deref(heap, ref) ==
  [i \in 1..Len(heap.arrays[ref]) |-> heap.objects[heap.arrays[ref][i]]]

\* [...array] and array.filter(...): a new array holding elems
NewArray(heap, elems) == [objects |-> heap.objects, arrays |-> Append(heap.arrays, elems)]

\* seq[i] = v, in place
SetAt(seq, i, v) == [k \in 1..Len(seq) |-> IF k = i THEN v ELSE seq[k]]

\* a variant of the filter of lines 249-254 that compares the role id only
survivesRemoveRoleOnly(binding, update) ==
  binding.roleId # update.roleId

\* lines 249-254: the binding survives a remove without id
survivesRemove(binding, update) ==
  \/ binding.roleId # update.roleId
  \/ binding.resourceType # update.resourceType
  \/ binding.resourceId # update.resourceId

\* one iteration of the loop of lines 227-280; state is the heap and the
\* array the local variable roleBindings refers to
applyUpdate(state, update, updatedBy, t) ==
  LET heap == state.heap
      ref == state.ref
      array == heap.arrays[ref]
  IN  CASE update.action = "add" ->
             LET newBinding ==
                   createRoleBinding(
                     [roleId |-> update.roleId,
                      resourceType |-> IF Truthy(update.resourceType)
                                       THEN update.resourceType ELSE Undefined,
                      resourceId |-> IF Truthy(update.resourceId)
                                     THEN update.resourceId ELSE Undefined,
                      conditions |-> update.conditions,
                      expiresAt |-> update.expiresAt],
                     updatedBy, t, update.random)
             IN  [heap |-> [objects |-> Append(heap.objects, newBinding),
                            arrays |-> SetAt(heap.arrays, ref,
                                             Append(array, Len(heap.objects) + 1))],
                  ref |-> ref]
        [] update.action = "remove" ->
             LET kept ==
                   IF Truthy(update.id)
                   THEN SelectSeq(array, LAMBDA o : heap.objects[o].id # update.id[1])
                   ELSE SelectSeq(array, LAMBDA o : survivesRemove(heap.objects[o], update))
             IN  [heap |-> NewArray(heap, kept), ref |-> Len(heap.arrays) + 1]
        [] update.action = "update" ->
             IF /\ Truthy(update.id)
                /\ \E i \in 1..Len(array) : heap.objects[array[i]].id = update.id[1]
             THEN LET index == CHOOSE i \in 1..Len(array) :
                                 /\ heap.objects[array[i]].id = update.id[1]
                                 /\ \A k \in 1..(i - 1) :
                                      heap.objects[array[k]].id # update.id[1]
                      existingBinding == heap.objects[array[index]]
                      replacement ==
                        [id |-> existingBinding.id, roleId |-> update.roleId,
                         roleName |-> getRoleName(update.roleId),
                         resourceType |-> update.resourceType,
                         resourceId |-> update.resourceId,
                         conditions |-> update.conditions,
                         expiresAt |-> update.expiresAt,
                         createdAt |-> existingBinding.createdAt,
                         assignedBy |-> existingBinding.assignedBy]
                  IN  [heap |-> [objects |-> Append(heap.objects, replacement),
                                 arrays |-> SetAt(heap.arrays, ref,
                                                  SetAt(array, index, Len(heap.objects) + 1))],
                       ref |-> ref]
             ELSE state
        [] OTHER -> state

RECURSIVE applyUpdates(_, _, _, _)
applyUpdates(state, updates, updatedBy, t) ==
  IF updates = <<>> THEN state
  ELSE applyUpdates(applyUpdate(state, Head(updates), updatedBy, t),
                    Tail(updates), updatedBy, t)

\* a variant that works on the user's own array instead of a copy
updateUserRoleBindingsNoCopy(heap, userRef, updates, updatedBy, t) ==
  applyUpdates([heap |-> heap, ref |-> userRef], updates, updatedBy, t)

\* updateUserRoleBindings; userRef is user.roleBindings.  The result is the
\* heap after the call and the reference returned.
updateUserRoleBindings(heap, userRef, updates, updatedBy, t) ==
  applyUpdates([heap |-> NewArray(heap, heap.arrays[userRef]),
                ref |-> Len(heap.arrays) + 1],
               updates, updatedBy, t)

(***************************************************************************)
(* The role-binding editor as a state machine: a user with stored          *)
(* bindings, and one call of updateUserRoleBindings.  user.roleBindings is *)
(* the content of the user's own array; the action writes back what the    *)
(* array holds after the call.                                             *)
(***************************************************************************)
StoredRoleIds == {USER_VIEWER, USER_MANAGER}

\* the binding stored at position i of the user's array
StoredBinding(i, roleId, grant) ==
  [id |-> "b" \o ToString(i), roleId |-> roleId, roleName |-> getRoleName(roleId),
   resourceType |-> grant.resourceType, resourceId |-> grant.resourceId,
   conditions |-> Undefined, expiresAt |-> grant.expiresAt,
   createdAt |-> SystemRoleTimestamp, assignedBy |-> "system"]

\* scope and expiry of a stored binding: global, scoped to a project, or
\* scoped to a project and time-limited
StoredGrants ==
  { [resourceType |-> Undefined, resourceId |-> Undefined, expiresAt |-> Undefined],
    [resourceType |-> Some("project"), resourceId |-> Some("p1"), expiresAt |-> Undefined],
    [resourceType |-> Some("project"), resourceId |-> Some("p1"),
     expiresAt |-> Some(MaxTime - 1)] }

StoredBindingLists ==
  UNION { { [i \in 1..n |-> StoredBinding(i, f[i][1], f[i][2])] :
              f \in [1..n -> StoredRoleIds \X StoredGrants] } : n \in 0..MaxBindings }

StoredUsers ==
  { [id |-> "u1", department |-> Some("engineering"), roleBindings |-> bl,
     directPermissions |-> Undefined] : bl \in StoredBindingLists }

UpdateRequest(action, id, roleId, resourceType, resourceId, expiresAt, random) ==
  [action |-> action, id |-> id, roleId |-> roleId, resourceType |-> resourceType,
   resourceId |-> resourceId, conditions |-> Undefined, expiresAt |-> expiresAt,
   random |-> random]

UpdateRequests ==
  { UpdateRequest("add", Undefined, USER_VIEWER, Undefined, Undefined, Undefined, "k3j9x"),
    UpdateRequest("add", Undefined, PROJECT_VIEWER, Some("project"), Some("p1"),
                  Some(MaxTime - 1), "q81ab"),
    UpdateRequest("remove", Some("b1"), USER_VIEWER, Undefined, Undefined, Undefined, ""),
    UpdateRequest("remove", Undefined, USER_VIEWER, Undefined, Undefined, Undefined, ""),
    UpdateRequest("update", Some("b1"), USER_MANAGER, Some("project"), Some("p2"),
                  Undefined, ""),
    UpdateRequest("update", Some("b1"), USER_MANAGER, Undefined, Undefined, Undefined, ""),
    UpdateRequest("update", Some("b9"), USER_MANAGER, Undefined, Undefined, Undefined, ""),
    UpdateRequest("update", Undefined, USER_MANAGER, Undefined, Undefined, Undefined, "") }

UpdateLists == UNION { [1..n -> UpdateRequests] : n \in 0..MaxUpdates }

\* the heap that holds the user's bindings: one array, one object per binding
HeapOf(u) ==
  [objects |-> u.roleBindings,
   arrays |-> << [i \in 1..Len(u.roleBindings) |-> i] >>]

\* the reference user.roleBindings in HeapOf(user)
UserArray == 1

InitBindings ==
  /\ user \in StoredUsers
  /\ now = 0
  /\ call = NoCall
  /\ roles = <<>>

UpdateUserRoleBindings ==
  /\ call = NoCall
  /\ \E updates \in UpdateLists :
       LET out == updateUserRoleBindings(HeapOf(user), UserArray, updates, "admin", now)
       IN  /\ call' = [op |-> "updateUserRoleBindings",
                       request |-> Some([updates |-> updates]),
                       response |-> Some([ref |-> out.ref,
                                          roleBindings |-> Deref(out.heap, out.ref)])]
           /\ user' = [user EXCEPT !.roleBindings = Deref(out.heap, UserArray)]
  /\ UNCHANGED <<now, roles>>

NextBindings == Tick \/ UpdateUserRoleBindings

SpecBindings == InitBindings /\ [][NextBindings]_vars

(***************************************************************************)
(* C13  updateUserRoleBindings leaves user.roleBindings as it was (length, *)
(* order and every binding in it) and returns a different array.           *)
(***************************************************************************)
C13_InputUntouched ==
  [][ call'.op = "updateUserRoleBindings" /\ call' # call
      => /\ user'.roleBindings = user.roleBindings
         /\ call'.response[1].ref # UserArray ]_vars

\* reached: a call that added, replaced and removed bindings returned a list
\* different from the two bindings the user still holds
C13_Witness ==
  /\ call.op = "updateUserRoleBindings"
  /\ Len(user.roleBindings) = 2
  /\ Len(call.request[1].updates) = 2
  /\ call.request[1].updates[1].action = "update"
  /\ call.request[1].updates[2].action = "add"
  /\ Len(call.response[1].roleBindings) = 3
  /\ call.response[1].roleBindings[1] # user.roleBindings[1]
  /\ call.response[1].roleBindings[1].id = "b1"

(***************************************************************************)
(* role-service.ts: getRoleHierarchy and inheritsFrom.  The hierarchy is   *)
(* the list of the entries of the object literal, in insertion order.      *)
(***************************************************************************)
HierarchyEntry(parentId, children) == [parentId |-> parentId, children |-> children]

getRoleHierarchy ==
  << HierarchyEntry(ORGANIZATION_ADMIN, << USER_ADMIN, PROJECT_OWNER >>),
     HierarchyEntry(USER_ADMIN, << USER_MANAGER, USER_VIEWER >>),
     HierarchyEntry(PROJECT_OWNER, << PROJECT_EDITOR, PROJECT_VIEWER >>),
     HierarchyEntry(USER_MANAGER, << USER_VIEWER, AUTHENTICATED_USER >>),
     HierarchyEntry(PROJECT_EDITOR, << PROJECT_VIEWER, AUTHENTICATED_USER >>),
     HierarchyEntry(USER_VIEWER, << AUTHENTICATED_USER >>),
     HierarchyEntry(PROJECT_VIEWER, << AUTHENTICATED_USER >>) >>

\* line 271: the entries whose children include roleId
parentsOf(roleId) ==
  SelectSeq(getRoleHierarchy, LAMBDA entry : roleId \in Range(entry.children))

RECURSIVE checkInheritance(_, _)
checkInheritance(roleId, targetId) ==
  IF roleId = targetId THEN TRUE
  ELSE \E i \in 1..Len(parentsOf(roleId)) :
         checkInheritance(parentsOf(roleId)[i].parentId, targetId)

\* a variant that looks at the direct parents only
inheritsFromDirectOnly(childRoleId, parentRoleId) ==
  \/ childRoleId = parentRoleId
  \/ \E i \in 1..Len(parentsOf(childRoleId)) :
       parentsOf(childRoleId)[i].parentId = parentRoleId

inheritsFrom(childRoleId, parentRoleId) == checkInheritance(childRoleId, parentRoleId)

(***************************************************************************)
(* Queries on the role catalog: the permission list of a role id, as the   *)
(* resolver and as the role service compute it, and inheritsFrom.          *)
(***************************************************************************)
LookupRolePermissions ==
  /\ call = NoCall
  /\ \E roleId \in TargetRoleIds :
       call' = [op |-> "rolePermissions", request |-> Some([roleId |-> roleId]),
                response |-> Some([resolver |-> getPermissionsForRole(roleId),
                                   catalog |-> getSystemRolePermissions(roleId)])]
  /\ UNCHANGED <<user, now, roles>>

InheritsFrom ==
  /\ call = NoCall
  /\ \E childRoleId \in TargetRoleIds, parentRoleId \in TargetRoleIds :
       call' = [op |-> "inheritsFrom",
                request |-> Some([childRoleId |-> childRoleId,
                                  parentRoleId |-> parentRoleId]),
                response |-> Some(inheritsFrom(childRoleId, parentRoleId))]
  /\ UNCHANGED <<user, now, roles>>

NextCatalog == LookupRolePermissions \/ InheritsFrom

SpecCatalog == InitRules /\ [][NextCatalog]_vars

(***************************************************************************)
(* C14  For every role id the resolver's permission list is the role       *)
(* service's: the same permission ids with the same conditions, and empty  *)
(* for an id that is not a system role.                                    *)
(***************************************************************************)
Grants(permissions) ==
  {[id |-> permissions[i].id, conditions |-> permissions[i].conditions] :
     i \in 1..Len(permissions)}

C14_ResolverUsesCatalog ==
  call.op = "rolePermissions" =>
    /\ Grants(call.response[1].resolver) = Grants(call.response[1].catalog)
    /\ call.request[1].roleId \notin SystemRoleIds => call.response[1].resolver = <<>>

(***************************************************************************)
(* C17  inheritsFrom(child, parent) is true iff parent is child or is      *)
(* reachable from child by moving from a role to a role that lists it as   *)
(* a subordinate; it is reflexive for every role id and transitive.        *)
(***************************************************************************)
\* the roles that list a member of S as a subordinate, added to S
Superiors(S) ==
  S \cup {getRoleHierarchy[i].parentId :
            i \in {k \in 1..Len(getRoleHierarchy) :
                     Range(getRoleHierarchy[k].children) \cap S # {}}}

RECURSIVE UpwardClosure(_)
UpwardClosure(S) == IF Superiors(S) = S THEN S ELSE UpwardClosure(Superiors(S))

C17_InheritsIffReachable ==
  call.op = "inheritsFrom" =>
    LET child == call.request[1].childRoleId
        parent == call.request[1].parentRoleId
    IN  /\ call.response[1] = (parent \in UpwardClosure({child}))
        /\ child = parent => call.response[1]
        /\ call.response[1] =>
             \A above \in TargetRoleIds :
               inheritsFrom(parent, above) => inheritsFrom(child, above)

\* reached: authenticated.user inherits from organization.admin, three levels up
C17_Witness ==
  /\ call.op = "inheritsFrom"
  /\ call.request[1].childRoleId = AUTHENTICATED_USER
  /\ call.request[1].parentRoleId = ORGANIZATION_ADMIN
  /\ call.response[1] = TRUE
  /\ \A i \in 1..Len(parentsOf(AUTHENTICATED_USER)) :
       parentsOf(AUTHENTICATED_USER)[i].parentId # ORGANIZATION_ADMIN

(***************************************************************************)
(* C20  Role escalation prevention: canAssignRole(A, T) is true only if    *)
(* the assigner holds T or a role from which T inherits, so that no        *)
(* assignable role carries a permission id that none of the assigner's     *)
(* roles carries.                                                          *)
(***************************************************************************)
C20_NoEscalation ==
  (call.op = "canAssignRole" /\ call.response[1] = TRUE) =>
    LET A == Range(call.request[1].assignerRoleIds)
        T == call.request[1].targetRoleId
    IN  /\ T \in A \/ \E a \in A : inheritsFrom(T, a)
        /\ Ids(getSystemRolePermissions(T))
             \subseteq UNION {Ids(getSystemRolePermissions(a)) : a \in A}

(***************************************************************************)
(* services.ts: isSystemUser, canAssignRole and getAvailableRoles.  The    *)
(* domain service canAssignRole(assigner, roleId, targetUser) is named     *)
(* canAssignRoleForUser here, RoleService.canAssignRole being              *)
(* canAssignRole.  profile?.department is the department field.            *)
(***************************************************************************)
isSystemUser(u, t) == hasRole(u, ORGANIZATION_ADMIN, t)

canAssignRoleForUser(assigner, roleId, targetUser, t) ==
  IF isSystemUser(assigner, t) THEN TRUE
  ELSE IF hasRole(assigner, USER_ADMIN, t) THEN ~includes(roleId, "organization")
  ELSE IF hasRole(assigner, USER_MANAGER, t) /\ IsDefined(targetUser)
       THEN /\ assigner.department = targetUser[1].department
            /\ (roleId = USER_VIEWER \/ roleId = AUTHENTICATED_USER)
  ELSE FALSE

getAvailableRoles(u, t) ==
  IF isSystemUser(u, t) THEN [i \in 1..Len(SYSTEM_ROLES) |-> SYSTEM_ROLES[i].id]
  ELSE IF hasRole(u, USER_ADMIN, t)
       THEN << USER_MANAGER, USER_VIEWER, PROJECT_OWNER, PROJECT_EDITOR, PROJECT_VIEWER,
               AUTHENTICATED_USER >>
  ELSE IF hasRole(u, USER_MANAGER, t) THEN << USER_VIEWER, AUTHENTICATED_USER >>
  ELSE <<>>

(***************************************************************************)
(* Delegation queries of the domain services as a state machine: an        *)
(* assigner with role bindings, the clock, and one query.                  *)
(***************************************************************************)
AssignerBindings ==
  { [roleId |-> r, resourceType |-> Undefined, resourceId |-> Undefined, expiresAt |-> e] :
      r \in AssignerRoleIds, e \in BindingExpiries }

Assigners ==
  { [id |-> "u1", department |-> Some("engineering"), roleBindings |-> bl,
     directPermissions |-> Undefined] :
      bl \in UNION { [1..n -> AssignerBindings] : n \in 0..MaxBindings } }

TargetUsers ==
  { Undefined,
    Some([id |-> "u2", department |-> Some("engineering"), roleBindings |-> <<>>,
          directPermissions |-> Undefined]),
    Some([id |-> "u3", department |-> Some("sales"), roleBindings |-> <<>>,
          directPermissions |-> Undefined]) }

InitDelegation ==
  /\ user \in Assigners
  /\ now = 0
  /\ call = NoCall
  /\ roles = <<>>

CanAssignRoleForUser ==
  /\ call = NoCall
  /\ \E roleId \in TargetRoleIds, targetUser \in TargetUsers :
       call' = [op |-> "canAssignRoleForUser",
                request |-> Some([roleId |-> roleId, targetUser |-> targetUser]),
                response |-> Some(canAssignRoleForUser(user, roleId, targetUser, now))]
  /\ UNCHANGED <<user, now, roles>>

GetAvailableRoles ==
  /\ call = NoCall
  /\ call' = [op |-> "getAvailableRoles", request |-> Undefined,
              response |-> Some(getAvailableRoles(user, now))]
  /\ UNCHANGED <<user, now, roles>>

NextDelegation == Tick \/ CanAssignRoleForUser \/ GetAvailableRoles

SpecDelegation == InitDelegation /\ [][NextDelegation]_vars

\* the roleIds of the effective bindings of u at t, in binding order
EffectiveRoleIds(u, t) ==
  [i \in 1..Len(getUserRoles(u, t)) |-> getUserRoles(u, t)[i].roleId]

(***************************************************************************)
(* C15  getAvailableRoles is derived from the canAssignRole table: a       *)
(* system role id is listed iff canAssignRole, applied to the roleIds of   *)
(* the user's effective bindings, allows it.                               *)
(***************************************************************************)
C15_AvailableFromTable ==
  call.op = "getAvailableRoles" =>
    \A r \in SystemRoleIds :
      (r \in Range(call.response[1])) = canAssignRole(EffectiveRoleIds(user, now), r)

(***************************************************************************)
(* C16  The domain service canAssignRole answers as the canAssignRole      *)
(* table does for the roleIds of the assigner's effective bindings,        *)
(* whatever the target user.                                               *)
(***************************************************************************)
C16_ServiceFollowsTable ==
  call.op = "canAssignRoleForUser" =>
    call.response[1] = canAssignRole(EffectiveRoleIds(user, now), call.request[1].roleId)

(***************************************************************************)
(* inheritsFrom step by step.  call holds the pending invocation: stack is *)
(* the chain of active checkInheritance calls, each with the roleId it was *)
(* called with and the index of the parent its some() tests next, and      *)
(* visits lists every roleId checkInheritance was called with, in order.   *)
(***************************************************************************)
Activation(roleId) == [roleId |-> roleId, next |-> 1]

Traversing == call.op = "inheritsFrom" /\ call.response = Undefined

Top == call.stack[Len(call.stack)]

\* line 276: inheritsFrom calls checkInheritance(childRoleId, parentRoleId)
CallInheritsFrom ==
  /\ call = NoCall
  /\ \E childRoleId \in TargetRoleIds, parentRoleId \in TargetRoleIds :
       call' = [op |-> "inheritsFrom",
                request |-> Some([childRoleId |-> childRoleId,
                                  parentRoleId |-> parentRoleId]),
                response |-> Undefined,
                stack |-> << Activation(childRoleId) >>,
                visits |-> << childRoleId >>]
  /\ UNCHANGED <<user, now, roles>>

\* line 269: roleId === targetId; true ends every pending some()
ReturnTrue ==
  /\ Traversing
  /\ Top.roleId = call.request[1].parentRoleId
  /\ call' = [call EXCEPT !.response = Some(TRUE), !.stack = <<>>]
  /\ UNCHANGED <<user, now, roles>>

\* line 273: some() calls checkInheritance for the next parent
EnterParent ==
  /\ Traversing
  /\ Top.roleId # call.request[1].parentRoleId
  /\ Top.next <= Len(parentsOf(Top.roleId))
  /\ LET parentId == parentsOf(Top.roleId)[Top.next].parentId
         depth == Len(call.stack)
     IN  call' = [call EXCEPT
                    !.stack = Append([i \in 1..depth |->
                                        IF i = depth
                                        THEN [roleId |-> Top.roleId, next |-> Top.next + 1]
                                        ELSE call.stack[i]],
                                     Activation(parentId)),
                    !.visits = Append(@, parentId)]
  /\ UNCHANGED <<user, now, roles>>

\* line 273: some() has run out of parents and returns false to its caller
ReturnFalse ==
  /\ Traversing
  /\ Top.roleId # call.request[1].parentRoleId
  /\ Top.next > Len(parentsOf(Top.roleId))
  /\ call' = IF Len(call.stack) = 1
             THEN [call EXCEPT !.response = Some(FALSE), !.stack = <<>>]
             ELSE [call EXCEPT !.stack = SubSeq(call.stack, 1, Len(call.stack) - 1)]
  /\ UNCHANGED <<user, now, roles>>

NextHierarchy == CallInheritsFrom \/ ReturnTrue \/ EnterParent \/ ReturnFalse

SpecHierarchy == InitRules /\ [][NextHierarchy]_vars

(***************************************************************************)
(* C18  The hierarchy is acyclic and inheritsFrom guards its upward        *)
(* traversal with a visited set: no role is entered twice in one           *)
(* traversal, and no role is its own strict superior.                      *)
(***************************************************************************)
C18_VisitedSetGuard ==
  call.op = "inheritsFrom" =>
    /\ \A i, j \in 1..Len(call.visits) : call.visits[i] = call.visits[j] => i = j
    /\ \A r \in SystemRoleIds :
         r \notin UpwardClosure({getRoleHierarchy[i].parentId :
                                   i \in {k \in 1..Len(getRoleHierarchy) :
                                            r \in Range(getRoleHierarchy[k].children)}})

(***************************************************************************)
(* role-service.ts: createRoleFromTemplate, and the creation of custom     *)
(* roles as a state machine: the caller keeps every role returned, and the *)
(* clock advances between calls or does not.                               *)
(***************************************************************************)
MaxCreated == 2

createRoleFromTemplate(templateRoleId, name, description, organizationId, createdBy, t) ==
  createCustomRole(name, description, getSystemRolePermissions(templateRoleId),
                   organizationId, createdBy, t)

CreateNames == {"Auditor", "auditor", "Org Helper"}

TemplateRoleIds == {USER_VIEWER, CUSTOM_ROLE}

InitCreate ==
  /\ user = NoUser
  /\ now = 0
  /\ call = NoCall
  /\ roles = <<>>

NewCustomRole ==
  /\ Len(roles) < MaxCreated
  /\ \E name \in CreateNames :
       LET role == createCustomRole(name, "d", PermsFromDef(<< "user.read" >>),
                                    Some("o1"), Some("u1"), now)
       IN  /\ roles' = Append(roles, role)
           /\ call' = [op |-> "createCustomRole", request |-> Some([name |-> name]),
                       response |-> Some(Returned(role))]
  /\ UNCHANGED <<user, now>>

NewRoleFromTemplate ==
  /\ Len(roles) < MaxCreated
  /\ \E templateRoleId \in TemplateRoleIds, name \in CreateNames :
       LET role == createRoleFromTemplate(templateRoleId, name, "d", Undefined,
                                          Undefined, now)
       IN  /\ roles' = Append(roles, role)
           /\ call' = [op |-> "createRoleFromTemplate",
                       request |-> Some([templateRoleId |-> templateRoleId,
                                         name |-> name]),
                       response |-> Some(Returned(role))]
  /\ UNCHANGED <<user, now>>

NextCreate == Advance \/ NewCustomRole \/ NewRoleFromTemplate

SpecCreate == InitCreate /\ [][NextCreate]_vars

(***************************************************************************)
(* C19  The ids of created roles are unique: any two roles returned by     *)
(* createCustomRole or createRoleFromTemplate have different ids; every    *)
(* one has type custom, isSystemRole false and an id that is no system     *)
(* role id.                                                                *)
(***************************************************************************)
C19_UniqueRoleIds ==
  /\ \A i, j \in 1..Len(roles) : roles[i].id = roles[j].id => i = j
  /\ \A i \in 1..Len(roles) :
       /\ roles[i].type = "custom"
       /\ roles[i].isSystemRole = FALSE
       /\ roles[i].id \notin SystemRoleIds

(***************************************************************************)
(* SpecConditions: PermissionService.checkPermissionConditions evaluated   *)
(* on its own, for users with and without an organization-scoped binding   *)
(* and a profile department, condition lists and optional contexts.        *)
(***************************************************************************)
MaxConditions == 2

ConditionBindingLists ==
  { <<>>,
    << [roleId |-> USER_VIEWER, resourceType |-> Some("organization"),
        resourceId |-> Some("o1"), expiresAt |-> Undefined] >>,
    << [roleId |-> USER_VIEWER, resourceType |-> Some("project"),
        resourceId |-> Some("p1"), expiresAt |-> Undefined] >> }

ConditionUsers ==
  { [id |-> "u1", department |-> d, roleBindings |-> bl, directPermissions |-> Undefined] :
      d \in {Undefined, Some("engineering")}, bl \in ConditionBindingLists }

ConditionPool ==
  { Condition("resource_owner", Some("self")),
    Condition("department_member", Some("same_department")),
    Condition("organization_member", Undefined),
    Condition("time_based", Undefined),
    Condition("geo_fence", Undefined) }

ConditionLists == UNION { [1..n -> ConditionPool] : n \in 0..MaxConditions }

ConditionContexts ==
  { Undefined,
    Some([resourceOwnerId |-> Undefined, department |-> Undefined,
          organizationId |-> Undefined]),
    Some([resourceOwnerId |-> Some("u1"), department |-> Some("engineering"),
          organizationId |-> Some("o1")]),
    Some([resourceOwnerId |-> Some("u2"), department |-> Some("sales"),
          organizationId |-> Some("o2")]) }

InitConditions ==
  /\ user \in ConditionUsers
  /\ now = 0
  /\ call = NoCall
  /\ roles = <<>>

CheckPermissionConditions ==
  /\ call = NoCall
  /\ \E conditions \in ConditionLists, context \in ConditionContexts :
       call' = [op |-> "checkPermissionConditions",
                request |-> Some([conditions |-> conditions, context |-> context]),
                response |-> Some(checkPermissionConditions(user, conditions, context))]
  /\ UNCHANGED <<user, now, roles>>

NextConditions == Tick \/ CheckPermissionConditions

SpecConditions == InitConditions /\ [][NextConditions]_vars

\* the rule the evaluator is said to apply to one condition
HoldsOrganizationBinding(u, organizationId) ==
  \E i \in 1..Len(u.roleBindings) :
    /\ u.roleBindings[i].resourceType = Some("organization")
    /\ u.roleBindings[i].resourceId = organizationId

StatedRule(u, condition, context) ==
  CASE condition.type = "resource_owner" /\ condition.value = Some("self") ->
         ContextField(context, "resourceOwnerId") = Some(u.id)
    [] condition.type = "department_member" /\ condition.value = Some("same_department") ->
         ContextField(context, "department") = u.department
    [] condition.type = "organization_member" ->
         HoldsOrganizationBinding(u, ContextField(context, "organizationId"))
    [] condition.type \in {"time_based", "ip_based"} -> TRUE
    [] OTHER -> FALSE

\* C21: the evaluator's result is the conjunction of the per-condition rules
\* (owner, department, organization membership by a binding scoped to the
\* context's organization, unrecognized types fail), also without a context.
C21_ConditionRules ==
  call.op = "checkPermissionConditions" =>
    (Resp = \A i \in 1..Len(Req.conditions) :
              StatedRule(user, Req.conditions[i], Req.context))

\* C21 without the organization_member rule: every other rule is as stated.
C21_OtherRules ==
  (/\ call.op = "checkPermissionConditions"
   /\ \A i \in 1..Len(Req.conditions) : Req.conditions[i].type # "organization_member") =>
    (Resp = \A i \in 1..Len(Req.conditions) :
              StatedRule(user, Req.conditions[i], Req.context))

(***************************************************************************)
(* C22  Direct permissions take precedence: a request whose permission is  *)
(* the name of a directPermissions entry is granted with the direct        *)
(* reason whatever the bindings, the scope, the context and the entry's    *)
(* conditions are; without such an entry a grant carries the role-based    *)
(* reason, which needs a role permission of that name from a binding that  *)
(* is not skipped, and a denial carries the not-found reason.              *)
(***************************************************************************)
C22_DirectPrecedence ==
  IsCheck =>
    /\ DirectMatch(user, Req) => Resp = DirectGranted
    /\ ~DirectMatch(user, Req) =>
         /\ Resp \in {RoleGranted, NotFound}
         /\ Resp = RoleGranted =>
              \E b \in Range(user.roleBindings) : ~InPast(b, now) /\ Supplies(b, Req)

\* a conditioned direct entry whose condition the context does not meet, all
\* bindings expired, one of them supplying the permission, a scoped request
C22_Witness ==
  /\ IsCheck
  /\ Req.permission = "Read Users"
  /\ \E d \in Range(user.directPermissions) :
       \E p \in Range(d) :
         /\ p.name = Req.permission
         /\ IsDefined(p.conditions)
         /\ ~checkPermissionConditions(user, p.conditions[1], Req.context)
  /\ user.roleBindings # <<>>
  /\ \A b \in Range(user.roleBindings) : InPast(b, now)
  /\ \E b \in Range(user.roleBindings) : Supplies(b, Req)
  /\ Truthy(Req.resourceType) /\ Truthy(Req.resourceId)
  /\ Resp = DirectGranted

(***************************************************************************)
(* The documented effect of one update request on a list of bindings.      *)
(* Each entry carries the binding and whether an 'update' request has      *)
(* replaced it; what a replaced binding holds besides its id, roleId,      *)
(* createdAt and assignedBy is left open here.                             *)
(***************************************************************************)
Entry(binding, replaced) == [binding |-> binding, replaced |-> replaced]

StatedStep(entries, update, updatedBy, t) ==
  CASE update.action = "add" ->
         Append(entries,
                Entry([id |-> generateId(t, update.random), roleId |-> update.roleId,
                       roleName |-> getRoleName(update.roleId),
                       resourceType |-> update.resourceType,
                       resourceId |-> update.resourceId,
                       conditions |-> update.conditions,
                       expiresAt |-> update.expiresAt,
                       createdAt |-> t, assignedBy |-> updatedBy], FALSE))
    [] update.action = "remove" /\ IsDefined(update.id) ->
         SelectSeq(entries, LAMBDA e : e.binding.id # update.id[1])
    [] update.action = "remove" /\ ~IsDefined(update.id) ->
         SelectSeq(entries, LAMBDA e : ~(/\ e.binding.roleId = update.roleId
                                         /\ e.binding.resourceType = update.resourceType
                                         /\ e.binding.resourceId = update.resourceId))
    [] update.action = "update" /\ IsDefined(update.id) ->
         [i \in 1..Len(entries) |->
            IF entries[i].binding.id = update.id[1]
            THEN Entry([entries[i].binding EXCEPT !.roleId = update.roleId], TRUE)
            ELSE entries[i]]
    [] OTHER -> entries

RECURSIVE StatedResult(_, _, _, _)
StatedResult(entries, updates, updatedBy, t) ==
  IF updates = <<>> THEN entries
  ELSE StatedResult(StatedStep(entries, Head(updates), updatedBy, t),
                    Tail(updates), updatedBy, t)

\* the returned binding is the one the entry describes
Matches(binding, entry) ==
  IF entry.replaced
  THEN /\ binding.id = entry.binding.id
       /\ binding.roleId = entry.binding.roleId
       /\ binding.createdAt = entry.binding.createdAt
       /\ binding.assignedBy = entry.binding.assignedBy
  ELSE binding = entry.binding

(***************************************************************************)
(* C23  updateUserRoleBindings returns the user's bindings with the        *)
(* requests applied one after another in list order: add appends one new   *)
(* binding built from the request and updatedBy, remove with an id deletes *)
(* the bindings with that id, remove without an id those equal to the      *)
(* request in roleId, resourceType and resourceId, update replaces the     *)
(* binding with the given id keeping id, createdAt and assignedBy, and an  *)
(* update with an absent or unknown id changes nothing.                    *)
(***************************************************************************)
C23_AppliedInOrder ==
  [][ call'.op = "updateUserRoleBindings" /\ call' # call
      => LET returned == call'.response[1].roleBindings
             stated == StatedResult([i \in 1..Len(user.roleBindings) |->
                                       Entry(user.roleBindings[i], FALSE)],
                                    call'.request[1].updates, "admin", now)
         IN  /\ Len(returned) = Len(stated)
             /\ \A i \in 1..Len(returned) : Matches(returned[i], stated[i]) ]_vars

\* reached: a remove without id deleted the global viewer binding and kept
\* the project-scoped one of the same role, which the update then replaced
C23_Witness ==
  /\ call.op = "updateUserRoleBindings"
  /\ Len(user.roleBindings) = 2
  /\ user.roleBindings[1].roleId = USER_VIEWER /\ ~IsGlobal(user.roleBindings[1])
  /\ user.roleBindings[2].roleId = USER_VIEWER /\ IsGlobal(user.roleBindings[2])
  /\ Len(call.request[1].updates) = 2
  /\ call.request[1].updates[1].action = "remove"
  /\ call.request[1].updates[1].id = Undefined
  /\ call.request[1].updates[2].action = "update"
  /\ Len(call.response[1].roleBindings) = 1
  /\ call.response[1].roleBindings[1].id = "b1"
  /\ call.response[1].roleBindings[1].roleId = USER_MANAGER
  /\ call.response[1].roleBindings[1].assignedBy = "system"

(***************************************************************************)
(* C24  An update request leaves every field it omits as it was: after a   *)
(* call with one update request whose id is the id of a stored binding,    *)
(* the binding returned in its place has the stored expiresAt,             *)
(* resourceType, resourceId and conditions wherever the request does not   *)
(* supply them.                                                            *)
(***************************************************************************)
C24_OmittedFieldsKept ==
  [][ (/\ call'.op = "updateUserRoleBindings" /\ call' # call
       /\ Len(call'.request[1].updates) = 1
       /\ call'.request[1].updates[1].action = "update")
      => LET update == call'.request[1].updates[1]
             returned == call'.response[1].roleBindings
         IN  \A i \in 1..Len(user.roleBindings) :
               Some(user.roleBindings[i].id) = update.id =>
                 /\ Len(returned) = Len(user.roleBindings)
                 /\ ~IsDefined(update.expiresAt) =>
                      returned[i].expiresAt = user.roleBindings[i].expiresAt
                 /\ ~IsDefined(update.resourceType) =>
                      returned[i].resourceType = user.roleBindings[i].resourceType
                 /\ ~IsDefined(update.resourceId) =>
                      returned[i].resourceId = user.roleBindings[i].resourceId
                 /\ ~IsDefined(update.conditions) =>
                      returned[i].conditions = user.roleBindings[i].conditions ]_vars

\* C24 for stored bindings that are global, never expire and carry no
\* conditions: an update that omits these fields returns them as they were.
C24_NothingToLose ==
  [][ (/\ call'.op = "updateUserRoleBindings" /\ call' # call
       /\ Len(call'.request[1].updates) = 1
       /\ call'.request[1].updates[1].action = "update")
      => LET update == call'.request[1].updates[1]
             returned == call'.response[1].roleBindings
         IN  \A i \in 1..Len(user.roleBindings) :
               (/\ Some(user.roleBindings[i].id) = update.id
                /\ IsGlobal(user.roleBindings[i])
                /\ user.roleBindings[i].expiresAt = Undefined
                /\ update.resourceType = Undefined /\ update.resourceId = Undefined
                /\ update.expiresAt = Undefined) =>
                 /\ IsGlobal(returned[i])
                 /\ returned[i].expiresAt = Undefined ]_vars

(***************************************************************************)
(* services: validateUserUpdate.  t is the clock hasRole reads.            *)
(***************************************************************************)
RECURSIVE trimStart(_)
trimStart(s) ==
  IF Len(s) > 0 /\ CharAt(s, 1) = " " THEN trimStart(SubSeq(s, 2, Len(s))) ELSE s

RECURSIVE trimEnd(_)
trimEnd(s) ==
  IF Len(s) > 0 /\ CharAt(s, Len(s)) = " " THEN trimEnd(SubSeq(s, 1, Len(s) - 1)) ELSE s

trim(s) == trimEnd(trimStart(s))

UserStatus == {"active", "inactive", "pending", "suspended"}

RECURSIVE bindingErrors(_)
bindingErrors(updates) ==
  IF updates = <<>> THEN <<>>
  ELSE (IF trim(Head(updates).roleId) = ""
        THEN <<"Role ID is required for each role binding">> ELSE <<>>)
       \o (IF Head(updates).action \notin {"add", "remove", "update"}
           THEN <<"Valid action (add, remove, update) is required for each role binding">>
           ELSE <<>>)
       \o bindingErrors(Tail(updates))

validateUserUpdate(currentUser, request, t) ==
  LET adminRoleUpdate ==
        /\ IsDefined(request.roleBindings)
        /\ \E i \in 1..Len(request.roleBindings[1]) :
             /\ request.roleBindings[1][i].roleId = ORGANIZATION_ADMIN
             /\ request.roleBindings[1][i].action = "remove"
      errors ==
        (IF IsDefined(request.firstName) /\ trim(request.firstName[1]) = ""
         THEN <<"First name cannot be empty">> ELSE <<>>)
        \o (IF IsDefined(request.lastName) /\ trim(request.lastName[1]) = ""
            THEN <<"Last name cannot be empty">> ELSE <<>>)
        \o (IF IsDefined(request.status) /\ request.status[1] \notin UserStatus
            THEN <<"Valid user status is required">> ELSE <<>>)
        \o (IF IsDefined(request.roleBindings)
            THEN bindingErrors(request.roleBindings[1]) ELSE <<>>)
        \o (IF adminRoleUpdate /\ hasRole(currentUser, ORGANIZATION_ADMIN, t)
            THEN <<"Cannot remove own organization admin role">> ELSE <<>>)
  IN  [isValid |-> errors = <<>>, errors |-> errors]

(***************************************************************************)
(* SpecSelfUpdate: a user who holds the organization admin role submits an *)
(* UpdateUserRequest for their own record.  The request is validated as    *)
(* useUpdateUser does; an accepted request's roleBindings are applied by   *)
(* updateUserRoleBindings.                                                 *)
(***************************************************************************)
AdminGrants ==
  { [resourceType |-> Undefined, resourceId |-> Undefined, expiresAt |-> e] :
      e \in BindingExpiries }

AdminBindingLists ==
  { <<StoredBinding(1, ORGANIZATION_ADMIN, g)>> : g \in AdminGrants }
  \cup { <<StoredBinding(1, ORGANIZATION_ADMIN, g),
           StoredBinding(2, USER_VIEWER,
                         [resourceType |-> Undefined, resourceId |-> Undefined,
                          expiresAt |-> Undefined])>> : g \in AdminGrants }

AdminUsers ==
  { [id |-> "u1", department |-> Some("engineering"), roleBindings |-> bl,
     directPermissions |-> Undefined] : bl \in AdminBindingLists }

SelfUpdateRequests ==
  { UpdateRequest("remove", Undefined, ORGANIZATION_ADMIN, Undefined, Undefined, Undefined, ""),
    UpdateRequest("remove", Some("b1"), ORGANIZATION_ADMIN, Undefined, Undefined, Undefined, ""),
    UpdateRequest("remove", Some("b1"), USER_VIEWER, Undefined, Undefined, Undefined, ""),
    UpdateRequest("remove", Undefined, USER_VIEWER, Undefined, Undefined, Undefined, ""),
    UpdateRequest("update", Some("b1"), USER_VIEWER, Undefined, Undefined, Undefined, ""),
    UpdateRequest("add", Undefined, USER_MANAGER, Undefined, Undefined, Undefined, "k3j9x"),
    UpdateRequest("add", Undefined, " ", Undefined, Undefined, Undefined, "k3j9x"),
    UpdateRequest("replace", Some("b1"), USER_VIEWER, Undefined, Undefined, Undefined, "") }

SelfUpdateLists == UNION { [1..n -> SelfUpdateRequests] : n \in 0..MaxUpdates }

UpdateUserRequests ==
  { [firstName |-> f, lastName |-> Undefined, status |-> s, roleBindings |-> rb] :
      f \in {Undefined, Some(" ")}, s \in {Undefined, Some("active"), Some("deleted")},
      rb \in {Undefined} \cup { Some(l) : l \in SelfUpdateLists } }

InitSelfUpdate ==
  /\ user \in AdminUsers
  /\ now = 0
  /\ call = NoCall
  /\ roles = <<>>

\* the request fails validation: the mutation throws before anything is applied
RejectUpdate ==
  /\ call = NoCall
  /\ \E request \in UpdateUserRequests :
       LET validation == validateUserUpdate(user, request, now)
       IN  /\ ~validation.isValid
           /\ call' = [op |-> "updateUser", request |-> Some(request),
                       response |-> Some([validation |-> validation,
                                          roleBindings |-> Undefined])]
  /\ UNCHANGED <<user, now, roles>>

\* the request passes validation and its roleBindings are applied
AcceptUpdate ==
  /\ call = NoCall
  /\ \E request \in UpdateUserRequests :
       LET validation == validateUserUpdate(user, request, now)
           updates == IF IsDefined(request.roleBindings)
                      THEN request.roleBindings[1] ELSE <<>>
           out == updateUserRoleBindings(HeapOf(user), UserArray, updates, user.id, now)
       IN  /\ validation.isValid
           /\ call' = [op |-> "updateUser", request |-> Some(request),
                       response |-> Some([validation |-> validation,
                                          roleBindings |-> Some(Deref(out.heap, out.ref))])]
           /\ user' = [user EXCEPT !.roleBindings = Deref(out.heap, UserArray)]
  /\ UNCHANGED <<now, roles>>

NextSelfUpdate == Tick \/ RejectUpdate \/ AcceptUpdate

SpecSelfUpdate == InitSelfUpdate /\ [][NextSelfUpdate]_vars

HoldsAdmin(roleBindings, t) ==
  \E b \in Range(roleBindings) : b.roleId = ORGANIZATION_ADMIN /\ Effective(b, t)

(***************************************************************************)
(* C25  A user with an effective organization admin binding keeps one      *)
(* through every accepted update of their own record: the bindings         *)
(* returned for an accepted request still hold an effective                *)
(* roles/organization.admin binding.                                       *)
(***************************************************************************)
C25_AdminRoleKept ==
  (/\ call.op = "updateUser"
   /\ Resp.validation.isValid
   /\ HoldsAdmin(user.roleBindings, now))
  => HoldsAdmin(Resp.roleBindings[1], now)

\* C25 for the one form the rule looks for: a request with a remove entry
\* that names roles/organization.admin is rejected for an effective admin.
C25_NamedRemovalRejected ==
  (/\ call.op = "updateUser"
   /\ HoldsAdmin(user.roleBindings, now)
   /\ \E u \in Range(Req.roleBindings) :
        \E r \in Range(u) : r.action = "remove" /\ r.roleId = ORGANIZATION_ADMIN)
  => /\ ~Resp.validation.isValid
     /\ Resp.roleBindings = Undefined

\* the binding covers the requested resource by itself
Covers(binding, request) ==
  \/ IsGlobal(binding)
  \/ /\ binding.resourceType = request.resourceType
     /\ binding.resourceId = request.resourceId

(***************************************************************************)
(* C26  A role-based grant for a request that names a resource type and id *)
(* rests on one binding: an effective binding whose role carries the       *)
(* requested permission and which is unscoped or scoped to exactly that    *)
(* resource.                                                               *)
(***************************************************************************)
C26_SingleSupportingBinding ==
  (/\ IsCheck
   /\ Truthy(Req.resourceType) /\ Truthy(Req.resourceId)
   /\ Resp = RoleGranted)
  => \E b \in Range(user.roleBindings) :
       Effective(b, now) /\ Supplies(b, Req) /\ Covers(b, Req)

\* C26, second half: a global binding to a role without the permission does
\* not widen a permission that only a binding scoped elsewhere supplies.
C26_NoWidening ==
  (/\ IsCheck
   /\ Truthy(Req.resourceType) /\ Truthy(Req.resourceId)
   /\ \A b \in Range(user.roleBindings) :
        /\ b.expiresAt = Undefined
        /\ Supplies(b, Req) => (~IsGlobal(b) /\ b.resourceType # Req.resourceType)
   /\ ~DirectMatch(user, Req))
  => Resp = NotFound

(***************************************************************************)
(* C27  The hierarchy and the permission table agree: whenever             *)
(* inheritsFrom(child, parent) holds, and so for every subordinate listed  *)
(* in getRoleHierarchy, every permission id of the child's role is a       *)
(* permission id of the parent's role.                                     *)
(***************************************************************************)
C27_HierarchyWithinPermissions ==
  (call.op = "inheritsFrom" /\ call.response[1]) =>
    Ids(getSystemRolePermissions(call.request[1].childRoleId))
      \subseteq Ids(getSystemRolePermissions(call.request[1].parentRoleId))

\* C27 apart from authenticated.user below the project roles: every other
\* inheriting pair has the child's permission ids among the parent's.
C27_ExceptAuthenticatedUnderProject ==
  (/\ call.op = "inheritsFrom" /\ call.response[1]
   /\ ~(/\ call.request[1].childRoleId = AUTHENTICATED_USER
        /\ call.request[1].parentRoleId \in {PROJECT_OWNER, PROJECT_EDITOR, PROJECT_VIEWER})) =>
    Ids(getSystemRolePermissions(call.request[1].childRoleId))
      \subseteq Ids(getSystemRolePermissions(call.request[1].parentRoleId))

(***************************************************************************)
(* SpecSelfCheck: the role service validates the roles it builds itself:   *)
(* the system roles of getSystemRoles with their own type, and the roles   *)
(* createRoleFromTemplate derives from a system role, as custom roles.     *)
(***************************************************************************)
ValidateSystemRole ==
  /\ call = NoCall
  /\ \E i \in 1..Len(getSystemRoles) :
       LET role == getSystemRoles[i]
       IN  call' = [op |-> "validateSystemRole",
                    request |-> Some([roleId |-> role.id, roleType |-> role.type]),
                    response |-> Some(validateRolePermissions(role.permissions, role.type))]
  /\ UNCHANGED <<user, now, roles>>

ValidateTemplateRole ==
  /\ call = NoCall
  /\ \E templateRoleId \in SystemRoleIds, name \in CreateNames :
       LET role == createRoleFromTemplate(templateRoleId, name, "d", Undefined,
                                          Undefined, now)
       IN  call' = [op |-> "validateTemplateRole",
                    request |-> Some([roleId |-> role.id, roleType |-> role.type,
                                      templateRoleId |-> templateRoleId,
                                      name |-> name]),
                    response |-> Some(validateRolePermissions(role.permissions, "custom"))]
  /\ UNCHANGED <<user, now, roles>>

NextSelfCheck == Tick \/ ValidateSystemRole \/ ValidateTemplateRole

SpecSelfCheck == InitRules /\ [][NextSelfCheck]_vars

(***************************************************************************)
(* C28  The roles the service builds pass its own validation: every system *)
(* role is valid for its type, and every role made from a system role as   *)
(* template is valid as a custom role.                                     *)
(***************************************************************************)
C28_BuiltRolesValid ==
  call.op \in {"validateSystemRole", "validateTemplateRole"} => Resp.isValid

\* C28 apart from the organization roles: the seven user and project roles
\* and their template copies are valid.
C28_UserAndProjectRolesValid ==
  (/\ call.op \in {"validateSystemRole", "validateTemplateRole"}
   /\ Req.roleId \notin {ORGANIZATION_ADMIN, ORGANIZATION_VIEWER}
   /\ call.op = "validateTemplateRole" =>
        Req.templateRoleId \notin {ORGANIZATION_ADMIN, ORGANIZATION_VIEWER})
  => Resp.isValid

(***************************************************************************)
(* store.ts: the user-management store.  A store state is the record of    *)
(* users, selectedUser and error; every action returns the next state.     *)
(***************************************************************************)
addUser(state, u) ==
  [state EXCEPT !.users = Append(state.users, u), !.error = Undefined]

\* Object.assign(target, updates): the fields of updates overwrite the target's
assign(target, updates) ==
  [f \in DOMAIN target |-> IF f \in DOMAIN updates THEN updates[f] ELSE target[f]]

updateUser(state, id, updates) ==
  IF \E i \in 1..Len(state.users) : state.users[i].id = id
  THEN LET index == CHOOSE i \in 1..Len(state.users) :
                      /\ state.users[i].id = id
                      /\ \A k \in 1..(i - 1) : state.users[k].id # id
       IN  [state EXCEPT !.users = SetAt(state.users, index,
                                         assign(state.users[index], updates))]
  ELSE state

removeUser(state, id) ==
  [state EXCEPT !.users = SelectSeq(state.users, LAMBDA u : u.id # id),
                !.selectedUser = IF \E s \in Range(state.selectedUser) : s.id = id
                                 THEN Undefined ELSE state.selectedUser]

setSelectedUser(state, u) == [state EXCEPT !.selectedUser = u]

getUserById(state, id) ==
  IF \E i \in 1..Len(state.users) : state.users[i].id = id
  THEN Some(state.users[CHOOSE i \in 1..Len(state.users) :
                          /\ state.users[i].id = id
                          /\ \A k \in 1..(i - 1) : state.users[k].id # id])
  ELSE Undefined

emitDomainEvent(state, event) ==
  CASE event.type = "USER_CREATED" -> addUser(state, event.payload)
    [] event.type = "USER_UPDATED" -> updateUser(state, event.payload.id, event.payload)
    [] event.type = "USER_DELETED" -> removeUser(state, event.payload.id)
    [] OTHER -> state

(***************************************************************************)
(* hooks: what onSuccess of useCreateUser, useUpdateUser and useDeleteUser *)
(* does to the store once the repository has answered.                     *)
(***************************************************************************)
onCreateSuccess(state, newUser) ==
  emitDomainEvent(addUser(state, newUser), [type |-> "USER_CREATED", payload |-> newUser])

onUpdateSuccess(state, updatedUser) ==
  emitDomainEvent(updateUser(state, updatedUser.id, updatedUser),
                  [type |-> "USER_UPDATED", payload |-> updatedUser])

onDeleteSuccess(state, id) ==
  emitDomainEvent(removeUser(state, id), [type |-> "USER_DELETED", payload |-> [id |-> id]])

(***************************************************************************)
(* SpecStore: the store under the mutation hooks.  user holds the store    *)
(* state together with the repository the hooks talk to: the ids of the    *)
(* users it holds and the number of ids it has issued.                     *)
(***************************************************************************)
MaxStoreUsers == 2

FirstNames == {"Ann", "Bob", " "}

StoreUser(id, firstName) == [id |-> id, firstName |-> firstName, roleBindings |-> <<>>]

InitStore ==
  /\ user = [store |-> [users |-> <<>>, selectedUser |-> Undefined, error |-> Undefined],
             repository |-> {}, issued |-> 0]
  /\ now = 0
  /\ call = NoCall
  /\ roles = <<>>

\* useCreateUser: the repository creates the user under a new id
CreateUser ==
  /\ user.issued < MaxStoreUsers
  /\ LET newUser == StoreUser("u" \o ToString(user.issued + 1), "New")
     IN  /\ user' = [store |-> onCreateSuccess(user.store, newUser),
                     repository |-> user.repository \cup {newUser.id},
                     issued |-> user.issued + 1]
         /\ call' = [op |-> "createUser", request |-> Undefined,
                     response |-> Some(newUser)]
  /\ UNCHANGED <<now, roles>>

\* useUpdateUser: the user is in the store and the request passes validation
UpdateUser ==
  /\ \E id \in user.repository, firstName \in FirstNames :
       LET updates == [firstName |-> Some(firstName), lastName |-> Undefined,
                       status |-> Undefined, roleBindings |-> Undefined]
           currentUser == getUserById(user.store, id)
       IN  /\ IsDefined(currentUser)
           /\ validateUserUpdate(currentUser[1], updates, now).isValid
           /\ user' = [user EXCEPT !.store =
                         onUpdateSuccess(@, StoreUser(id, firstName))]
           /\ call' = [op |-> "updateUser",
                       request |-> Some([id |-> id, updates |-> updates]),
                       response |-> Some(StoreUser(id, firstName))]
  /\ UNCHANGED <<now, roles>>

\* useDeleteUser: the repository deletes a user it holds
DeleteUser ==
  /\ \E id \in user.repository :
       /\ user' = [store |-> onDeleteSuccess(user.store, id),
                   repository |-> user.repository \ {id},
                   issued |-> user.issued]
       /\ call' = [op |-> "deleteUser", request |-> Some([id |-> id]),
                   response |-> Undefined]
  /\ UNCHANGED <<now, roles>>

\* setSelectedUser with a user of the list, or null
SelectUser ==
  /\ \E u \in {Undefined} \cup {Some(x) : x \in Range(user.store.users)} :
       /\ u # user.store.selectedUser
       /\ user' = [user EXCEPT !.store = setSelectedUser(@, u)]
       /\ call' = [op |-> "setSelectedUser", request |-> Some([user |-> u]),
                   response |-> Undefined]
  /\ UNCHANGED <<now, roles>>

NextStore == CreateUser \/ UpdateUser \/ DeleteUser \/ SelectUser

SpecStore == InitStore /\ [][NextStore]_vars

Occurrences(users, id) == Cardinality({i \in 1..Len(users) : users[i].id = id})

(***************************************************************************)
(* C29  User ids stay unique in the store: after any sequence of           *)
(* successful create, update and delete mutations the users list holds     *)
(* every created user that was not deleted exactly once, and no deleted    *)
(* user.                                                                   *)
(***************************************************************************)
C29_UniqueUserIds ==
  /\ \A id \in user.repository : Occurrences(user.store.users, id) = 1
  /\ \A u \in Range(user.store.users) : u.id \in user.repository

\* C29, the half about deleted users: the list holds users the repository
\* still has, each at least once, and none that was deleted.
C29_NoDeletedUser ==
  /\ \A id \in user.repository : Occurrences(user.store.users, id) >= 1
  /\ \A u \in Range(user.store.users) : u.id \in user.repository

(***************************************************************************)
(* services: getUserPermissions, the names of getEffectivePermissions      *)
(***************************************************************************)
getUserPermissions(u, t) ==
  LET permissions == getEffectivePermissions(u, t)
  IN  [i \in 1..Len(permissions) |-> permissions[i].name]

(***************************************************************************)
(* SpecIntrospect: the introspection list next to the enforcement          *)
(* decision, for users whose direct permissions may carry the id of a role *)
(* permission, under the catalog's name or under a name of their own.      *)
(***************************************************************************)
IntrospectBindingLists ==
  { <<>>,
    << [roleId |-> USER_VIEWER, resourceType |-> Undefined, resourceId |-> Undefined,
        expiresAt |-> Undefined] >>,
    << [roleId |-> USER_VIEWER, resourceType |-> Undefined, resourceId |-> Undefined,
        expiresAt |-> Some(MaxTime - 1)] >>,
    << [roleId |-> USER_MANAGER, resourceType |-> Some("project"),
        resourceId |-> Some("p1"), expiresAt |-> Undefined] >> }

IntrospectDirectLists ==
  DirectPermissionLists
  \cup { Some(<< [createPermission(PermDef("user.read"), Undefined)
                    EXCEPT !.name = "View Users"] >>) }

IntrospectUsers ==
  { [id |-> "u1", department |-> Some("engineering"), roleBindings |-> bl,
     directPermissions |-> d] : bl \in IntrospectBindingLists, d \in IntrospectDirectLists }

IntrospectRequests ==
  Requests \cup { [userId |-> "u1", permission |-> "View Users",
                   resourceType |-> Undefined, resourceId |-> Undefined,
                   context |-> Undefined] }

InitIntrospect ==
  /\ user \in IntrospectUsers
  /\ now = 0
  /\ call = NoCall
  /\ roles = <<>>

GetUserPermissions ==
  /\ call = NoCall
  /\ call' = [op |-> "getUserPermissions", request |-> Undefined,
              response |-> Some(getUserPermissions(user, now))]
  /\ UNCHANGED <<user, now, roles>>

CheckIntrospectedPermission ==
  /\ call = NoCall
  /\ \E request \in IntrospectRequests :
       call' = [op |-> "checkPermission", request |-> Some(request),
                response |-> Some(checkPermission(user, request, now))]
  /\ UNCHANGED <<user, now, roles>>

NextIntrospect == Tick \/ GetUserPermissions \/ CheckIntrospectedPermission

SpecIntrospect == InitIntrospect /\ [][NextIntrospect]_vars

(***************************************************************************)
(* C30  The introspection list covers every grant: every permission string *)
(* that checkPermission grants for some scope and context at the time of   *)
(* the listing is among the names getUserPermissions returns, also for a   *)
(* user whose direct permission has the id of a role permission.           *)
(***************************************************************************)
C30_ListCoversGrants ==
  call.op = "getUserPermissions" =>
    \A request \in IntrospectRequests :
      checkPermission(user, request, now).granted =>
        request.permission \in Range(Resp)

\* C30 for users whose direct permissions carry the catalog's name for
\* their id: the list covers every grant.
C30_CatalogNamedCovered ==
  (/\ call.op = "getUserPermissions"
   /\ \A d \in Range(user.directPermissions) :
        \A p \in Range(d) : p.name = PermDef(p.id).name)
  => \A request \in IntrospectRequests :
       checkPermission(user, request, now).granted =>
         request.permission \in Range(Resp)

====
